---- MODULE Spec2Model ----
(***************************************************************************)
(* Payment orchestration worker: the webhook intake pipeline               *)
(* (router.js handleWebhook), the provider adapters' webhook verification, *)
(* the KV helpers (kv.js) and the logger's error counter (logger.js).      *)
(*                                                                         *)
(* Every inbound request runs in a slot of its own; the awaits of a        *)
(* handler are the points where the steps of other requests, the clock     *)
(* and a termination of the worker can interleave.  The three KV           *)
(* namespaces are maps from key to a value with an expiry time.            *)
(***************************************************************************)
EXTENDS Integers, Sequences, FiniteSets, TLC

VARIABLES now, ticks, deliveries, logger, EVENTS, METRICS, req, last, hist,
          SESSIONS, api, paypal, lapsed, util

vars == <<now, ticks, deliveries, logger, EVENTS, METRICS, req, last, hist,
          SESSIONS, api, paypal, lapsed, util>>

(***************************************************************************)
(* Bounds of the model.                                                    *)
(***************************************************************************)
MaxDeliveries == 2
MaxTicks == 1
MaxTokenRequests == 2
MaxElapses == 4

SlotOrder == <<"a", "b">>
Slots == {SlotOrder[i] : i \in DOMAIN SlotOrder}
EventIds == {"evt_1", "evt_2"}
EventTypes == {"transaction.completed"}
ProviderSegments == {"paddle", "PADDLE", "paypal", "stripe", "unknown"}

(***************************************************************************)
(* Program constants.                                                      *)
(***************************************************************************)
EventTtl == 604800
CounterTtl == 86400
ErrorMetricTtl == 86400 * 30
DaySeconds == 86400
HttpOk == 200
WebhookErrorStatus == 400

TickSteps == {EventTtl}

None == "none"
PaddleWebhookSecret == "test_paddle_secret"

(***************************************************************************)
(* The KV namespace: put with expirationTtl, get of a live key.            *)
(***************************************************************************)
\* kv.get(key) !== null
KvHas(kv, key, t) == key \in DOMAIN kv /\ t < kv[key].exp

KvGet(kv, key) == kv[key].value

KvPut(kv, key, value, ttl, t) ==
  [k \in (DOMAIN kv) \cup {key} |->
     IF k = key THEN [value |-> value, exp |-> t + ttl] ELSE kv[k]]

KvPurge(kv, t) == [k \in {x \in DOMAIN kv : t < kv[x].exp} |-> kv[k]]

EmptyKv == [k \in {} |-> None]

(***************************************************************************)
(* Adapter factory: the path segment is lower-cased and looked up in the   *)
(* closed registry.                                                        *)
(***************************************************************************)
\* a factory that looks the name up as it is spelled
asSpelled(name) == name

toLowerCase(name) ==
  CASE name \in {"PADDLE", "Paddle"} -> "paddle"
    [] name \in {"PAYPAL", "PayPal"} -> "paypal"
    [] name \in {"STRIPE", "Stripe"} -> "stripe"
    [] OTHER -> name

Registry == {"paddle", "paypal", "stripe"}

\* a factory that falls back to an adapter for a name it does not know
getProviderAdapterOrDefault(provider) ==
  [ok |-> TRUE,
   adapter |-> IF toLowerCase(provider) \in Registry THEN toLowerCase(provider) ELSE "paddle",
   error |-> None]

getProviderAdapter(provider) ==
  IF toLowerCase(provider) \in Registry
  THEN [ok |-> TRUE, adapter |-> toLowerCase(provider), error |-> None]
  ELSE [ok |-> FALSE, adapter |-> None, error |-> "Unsupported payment provider"]

(***************************************************************************)
(* Signature verifier.  A hex digest is the symbolic term of what was      *)
(* hashed under which key: two digests are equal exactly when key and      *)
(* message are.  A signature text is the sequence of its segments between  *)
(* '=' characters.                                                         *)
(***************************************************************************)
Hmac(secret, payload) == <<"hmac-sha256", secret, payload>>

\* a signature that is compared with its tag left on
cleanSignatureKeepingTag(signature) ==
  IF Len(signature) > 1 THEN signature ELSE signature[1]

\* signature.includes('=') ? signature.split('=')[1] : signature
cleanSignature(signature) ==
  IF Len(signature) > 1 THEN signature[2] ELSE signature[1]

\* the try block: importKey refuses a key of no bytes, signature.includes
\* fails on a signature that is not there, otherwise the two hex texts are
\* compared with ===
hmacCompare(payload, signature, secret) ==
  IF secret = "" \/ signature = <<>>
  THEN [threw |-> TRUE, value |-> FALSE]
  ELSE [threw |-> FALSE, value |-> Hmac(secret, payload) = cleanSignature(signature)]

\* try { ... } catch (error) { console.error(...); return false; }
verifyHmacSignatureCall(payload, signature, secret) ==
  LET r == hmacCompare(payload, signature, secret)
  IN [threw |-> FALSE, value |-> ~r.threw /\ r.value]

verifyHmacSignature(payload, signature, secret) ==
  verifyHmacSignatureCall(payload, signature, secret).value

\* isTimestampValid(timestamp, toleranceSeconds = 300) at clock time t; no
\* adapter calls it
ToleranceSeconds == 300

\* a check that turns away every timestamp ahead of the clock
isTimestampValidWithinPastOnly(timestamp, toleranceSeconds, t) ==
  0 <= t - timestamp /\ t - timestamp <= toleranceSeconds

\* Math.abs(Math.floor(Date.now() / 1000) - timestamp) <= toleranceSeconds
isTimestampValidWithin(timestamp, toleranceSeconds, t) ==
  LET difference == IF t - timestamp < 0 THEN timestamp - t ELSE t - timestamp
  IN difference <= toleranceSeconds

isTimestampValid(timestamp, t) == isTimestampValidWithin(timestamp, ToleranceSeconds, t)

(***************************************************************************)
(* Results of an adapter's verifyWebhook: the verified event, or the       *)
(* error thrown; logs counts the logger.error calls made on the way,       *)
(* tokenRequests / verifyRequests the round-trips to the processor.        *)
(***************************************************************************)
NoEvent == [eventId |-> None, eventType |-> None]

Thrown(msg, nlogs, ntok, nver) ==
  [ok |-> FALSE, error |-> msg, event |-> NoEvent, logs |-> nlogs,
   tokenRequests |-> ntok, verifyRequests |-> nver]

Verified(eid, etype, ntok, nver) ==
  [ok |-> TRUE, error |-> None, event |-> [eventId |-> eid, eventType |-> etype],
   logs |-> 0, tokenRequests |-> ntok, verifyRequests |-> nver]

(***************************************************************************)
(* Paddle: the paddle-signature header is a ';'-separated list of          *)
(* key=value parts; a later part with the same key overrides an earlier.   *)
(* A header text is a sequence, the absent or empty text the empty one.    *)
(***************************************************************************)
Undefined == <<>>

RECURSIVE sigPart(_, _)
sigPart(parts, key) ==
  IF parts = <<>> THEN Undefined
  ELSE LET part == parts[Len(parts)]
       IN IF part[1] = key
          THEN (IF Len(part) > 1 THEN part[2] ELSE Undefined)
          ELSE sigPart(SubSeq(parts, 1, Len(parts) - 1), key)

\* a verifier that takes any h1 for the digest
PaddleVerifyAcceptsAny(timestamp, payload, receivedSignature) == TRUE

PaddleVerifyAccepts(timestamp, payload, receivedSignature) ==
  verifyHmacSignature(<<timestamp, payload>>, <<receivedSignature>>, PaddleWebhookSecret)

PaddleVerifyWebhook(request) ==
  LET signature == request.headers["paddle-signature"]
      timestamp == sigPart(signature, "ts")
      receivedSignature == sigPart(signature, "h1")
  IN IF signature = Undefined
     THEN Thrown("Missing Paddle signature header", 0, 0, 0)
     ELSE IF ~request.body.valid
     THEN Thrown("Unexpected token in JSON", 0, 0, 0)
     ELSE IF timestamp = Undefined \/ receivedSignature = Undefined
     THEN Thrown("Invalid Paddle signature format", 0, 0, 0)
     ELSE IF ~PaddleVerifyAccepts(timestamp, request.body, receivedSignature)
     THEN Thrown("Invalid Paddle webhook signature", 0, 0, 0)
     ELSE Verified(request.body.event_id, request.body.event_type, 0, 0)

(***************************************************************************)
(* PayPal: the adapter of a request starts with an empty token cache, so   *)
(* verification first requests a token and then asks PayPal to verify.     *)
(* request.remote is what PayPal answers to this request's calls.          *)
(***************************************************************************)
\* a verifier that asks PayPal and takes the event whatever it answers
PayPalVerifyWebhookTrusting(request) ==
  IF request.headers["paypal-transmission-id"] = None
     \/ request.headers["paypal-transmission-sig"] = None
  THEN Thrown("Missing PayPal webhook headers", 0, 0, 0)
  ELSE Verified(request.body.id, request.body.event_type, 1, 1)

\* a verifier that asks PayPal first and looks at the headers afterwards
PayPalVerifyWebhookAskingFirst(request) ==
  IF ~request.body.valid
  THEN Thrown("Unexpected token in JSON", 0, 0, 0)
  ELSE IF request.remote.token # "ok"
  THEN Thrown("Failed to get PayPal access token", 2, 1, 0)
  ELSE IF request.remote.verify # "ok"
  THEN Thrown("PayPal webhook verification failed", 1, 1, 1)
  ELSE IF request.headers["paypal-transmission-id"] = None
          \/ request.headers["paypal-transmission-sig"] = None
  THEN Thrown("Missing PayPal webhook headers", 1, 1, 1)
  ELSE IF request.remote.verification_status # "SUCCESS"
  THEN Thrown("Invalid PayPal webhook signature", 1, 1, 1)
  ELSE Verified(request.body.id, request.body.event_type, 1, 1)

PayPalVerifyWebhook(request) ==
  IF request.headers["paypal-transmission-id"] = None
     \/ request.headers["paypal-transmission-sig"] = None
  THEN Thrown("Missing PayPal webhook headers", 0, 0, 0)
  ELSE IF ~request.body.valid
  THEN Thrown("Unexpected token in JSON", 0, 0, 0)
  ELSE IF request.remote.token # "ok"
  THEN Thrown("Failed to get PayPal access token", 2, 1, 0)
  ELSE IF request.remote.verify # "ok"
  THEN Thrown("PayPal webhook verification failed", 1, 1, 1)
  ELSE IF request.remote.verification_status # "SUCCESS"
  THEN Thrown("Invalid PayPal webhook signature", 1, 1, 1)
  ELSE Verified(request.body.id, request.body.event_type, 1, 1)

StripeVerifyWebhook(request) ==
  Thrown("Stripe webhook verification not yet implemented. Coming soon!", 0, 0, 0)

verifyWebhook(adapter, request) ==
  CASE adapter = "paddle" -> PaddleVerifyWebhook(request)
    [] adapter = "paypal" -> PayPalVerifyWebhook(request)
    [] OTHER -> StripeVerifyWebhook(request)

(***************************************************************************)
(* Idempotency ledger and metric counters (kv.js).                         *)
(***************************************************************************)
\* a ledger key that leaves the event id out
EvtKeyOfProvider(provider, eventId) == <<"evt", provider>>

EvtKey(provider, eventId) == <<"evt", provider, eventId>>

\* a ledger that never finds a marker
isEventProcessedNever(kv, provider, eventId, t) == FALSE

isEventProcessed(kv, provider, eventId, t) ==
  KvHas(kv, EvtKey(provider, eventId), t)

\* a ledger whose markers last an hour
markEventProcessedForAnHour(kv, provider, eventId, data, t) ==
  KvPut(kv, EvtKey(provider, eventId),
        [processed_at |-> t, eventType |-> data.eventType, processedAt |-> data.processedAt],
        3600, t)

\* a ledger whose marker write stores nothing
markEventProcessedNothing(kv, provider, eventId, data, t) == kv

markEventProcessed(kv, provider, eventId, data, t) ==
  KvPut(kv, EvtKey(provider, eventId),
        [processed_at |-> t, eventType |-> data.eventType, processedAt |-> data.processedAt],
        EventTtl, t)

\* new Date().toISOString().split('T')[0]
Day(t) == t \div DaySeconds

WebhookCounterKey(provider, eventType, t) == <<"webhook", provider, eventType, Day(t)>>

ErrorCounterKey(t) == <<"error", "unknown", Day(t)>>

\* incrementCounter is a read followed by a separate write
counterRead(kv, counterKey, t) ==
  IF KvHas(kv, counterKey, t) THEN KvGet(kv, counterKey) ELSE 0

counterWrite(kv, counterKey, current, t) ==
  KvPut(kv, counterKey, current + 1, CounterTtl, t)

\* Logger._incrementErrorMetric, one best-effort increment of the error key
incrementErrorMetric(kv, t) ==
  KvPut(kv, ErrorCounterKey(t), counterRead(kv, ErrorCounterKey(t), t) + 1,
        ErrorMetricTtl, t)

(***************************************************************************)
(* Webhook deliveries the processors (and anyone else) can send.           *)
(***************************************************************************)
HeaderNames == {"paddle-signature", "paypal-transmission-id", "paypal-transmission-sig"}

NoHeaders == [h \in HeaderNames |-> IF h = "paddle-signature" THEN Undefined ELSE None]

\* the ts part of the deliveries' signature header: they were signed when the
\* clock started
SignatureTimestamp == <<0>>

PaddleBody(eid, etype) ==
  [valid |-> TRUE, event_id |-> eid, id |-> None, event_type |-> etype]

PayPalBody(eid, etype) ==
  [valid |-> TRUE, event_id |-> None, id |-> eid, event_type |-> etype]

InvalidBody == [valid |-> FALSE, event_id |-> None, id |-> None, event_type |-> None]

PayPalEventIds == {"evt_1"}

PaddleSignatures(body) ==
  { Undefined,
    << <<"ts", SignatureTimestamp>> >>,
    << <<"ts", SignatureTimestamp>>,
       <<"h1", Hmac("attacker_secret", <<SignatureTimestamp, body>>)>> >>,
    << <<"ts", SignatureTimestamp>>,
       <<"h1", Hmac(PaddleWebhookSecret, <<SignatureTimestamp, body>>)>> >> }

RemoteOk == [token |-> "ok", verify |-> "ok", verification_status |-> "SUCCESS"]

PayPalRemotes ==
  { RemoteOk,
    [RemoteOk EXCEPT !.token = "fail"],
    [RemoteOk EXCEPT !.verify = "fail"],
    [RemoteOk EXCEPT !.verification_status = "FAILURE"] }

PayPalHeaderSets ==
  { [NoHeaders EXCEPT !["paypal-transmission-id"] = "tid", !["paypal-transmission-sig"] = "tsig"],
    [NoHeaders EXCEPT !["paypal-transmission-id"] = "tid"],
    [NoHeaders EXCEPT !["paypal-transmission-sig"] = "tsig"],
    NoHeaders }

PaddleRequests ==
  { [provider |-> p, headers |-> [NoHeaders EXCEPT !["paddle-signature"] = sig],
     body |-> PaddleBody(e, t), remote |-> RemoteOk] :
      p \in {"paddle"}, e \in EventIds, t \in EventTypes,
      sig \in UNION {PaddleSignatures(PaddleBody(e2, t2)) : e2 \in EventIds, t2 \in EventTypes} }

PayPalRequests ==
  { [provider |-> "paypal", headers |-> h, body |-> PayPalBody(e, t), remote |-> r] :
      h \in PayPalHeaderSets, e \in PayPalEventIds, t \in EventTypes, r \in PayPalRemotes }

\* deliveries to an adapter that is not implemented, to no adapter, and
\* with a body that is no JSON
OtherRequests ==
  { [r EXCEPT !.provider = p] :
      r \in {x \in PaddleRequests : PaddleVerifyWebhook(x).ok}, p \in {"stripe", "unknown"} }
  \cup { [r EXCEPT !.body = InvalidBody] : r \in PaddleRequests }

WebhookRequests == PaddleRequests \cup PayPalRequests \cup OtherRequests

(***************************************************************************)
(* What the spec calls a missing, malformed or non-matching signature,     *)
(* read off the delivery itself.                                           *)
(***************************************************************************)
SignatureClass(request) ==
  LET sig == request.headers["paddle-signature"]
  IN CASE toLowerCase(request.provider) = "paddle" ->
            IF sig = Undefined THEN "missing"
            ELSE IF \A i \in 1..Len(sig) : sig[i][1] # "ts" THEN "malformed"
            ELSE IF \A i \in 1..Len(sig) : sig[i][1] # "h1" THEN "malformed"
            ELSE IF \E i \in 1..Len(sig) :
                      /\ sig[i][1] = "h1"
                      /\ sig[i][2] = Hmac(PaddleWebhookSecret, <<SignatureTimestamp, request.body>>)
                 THEN "valid" ELSE "mismatch"
       [] toLowerCase(request.provider) = "paypal" ->
            IF request.headers["paypal-transmission-id"] = None
               \/ request.headers["paypal-transmission-sig"] = None THEN "missing"
            ELSE IF request.remote.token # "ok" \/ request.remote.verify # "ok" THEN "unverifiable"
            ELSE IF request.remote.verification_status = "SUCCESS" THEN "valid" ELSE "mismatch"
       [] OTHER -> "unsupported"

(***************************************************************************)
(* handleWebhook's control flow at each await.                             *)
(***************************************************************************)
\* control flows that differ from the handler's in one branch each
AfterCheckProceed(alreadyProcessed) == "mark"

AfterMarkProceed(outcome) == "forward"

AfterMarkStop(outcome) == "catch"

AfterForwardStop(result) == IF result = "ok" THEN "metric_get" ELSE "catch"

AfterCheck(alreadyProcessed) == IF alreadyProcessed THEN "done" ELSE "mark"

AfterMark(outcome) == IF outcome = "ok" THEN "forward" ELSE "catch"

\* a non-2xx answer is logged (warn), a network error caught and logged
AfterForward(result) == "metric_get"

AfterCounterRead(outcome) == IF outcome = "ok" THEN "metric_put" ELSE "catch"

AfterCounterWrite(outcome) == IF outcome = "ok" THEN "done" ELSE "catch"

\* logger.error calls of the inner try/catch around the backend fetch
ForwardErrorLogs(result) == IF result = "neterr" THEN 1 ELSE 0

(***************************************************************************)
(* The JSON API: checkout, receipt, subscription create and cancel.        *)
(* A field of a JSON body is the empty sequence when it is absent and the  *)
(* one-element sequence of its value when it is present.                   *)
(***************************************************************************)
\* !field, for a field whose falsy value is zero ('' for text, 0 for a number)
Falsy(field, zero) == field = Undefined \/ field = <<zero>>

\* field || fallback
OrElse(field, fallback) == IF Falsy(field, "") THEN <<fallback>> ELSE field

SessionTtl == 3600
SubscriptionTtl == 86400 * 30

SessionKey(sessionId) == <<"session", sessionId>>

\* a store whose records all last a day, whatever TTL is asked for
storeSessionForADay(kv, sessionId, data, ttl, t) ==
  KvPut(kv, SessionKey(sessionId), data, 86400, t)

storeSession(kv, sessionId, data, ttl, t) ==
  KvPut(kv, SessionKey(sessionId), data, ttl, t)

\* a lookup that answers with any live record, whatever id it is asked for
getSessionOfAnyId(kv, sessionId, t) ==
  IF \E k \in DOMAIN kv : t < kv[k].exp
  THEN <<kv[CHOOSE k \in DOMAIN kv : t < kv[k].exp].value>>
  ELSE Undefined

\* kv.get(key, 'json'): the stored object, or null (the empty sequence)
getSession(kv, sessionId, t) ==
  IF KvHas(kv, SessionKey(sessionId), t)
  THEN <<KvGet(kv, SessionKey(sessionId))>>
  ELSE Undefined

CheckoutCounterKey(provider, t) == <<"checkout", provider, Day(t)>>

\* getName() of each adapter class
getName(adapter) ==
  CASE adapter = "paddle" -> "paddle"
    [] adapter = "paypal" -> "paypal"
    [] adapter = "stripe" -> "stripe"

(***************************************************************************)
(* The adapters' calls to their processor.  remote is how the processor    *)
(* answers this request: "ok", "error" (a non-2xx answer) or, for PayPal,  *)
(* "token_error" (the token request fails).  A result carries the value    *)
(* returned or the error thrown, the requests made (calls) and the number  *)
(* of logger.error calls (logs).                                           *)
(***************************************************************************)
Returned(value, calls) ==
  [ok |-> TRUE, value |-> value, error |-> None, calls |-> calls, logs |-> 0]

Threw(msg, calls, nlogs) ==
  [ok |-> FALSE, value |-> None, error |-> msg, calls |-> calls, logs |-> nlogs]

Request(processor, what, arg) == [to |-> processor, what |-> what, arg |-> arg]

PayPalToken == Request("paypal", "POST /v1/oauth2/token", Undefined)

(***************************************************************************)
(* The PayPal adapter's token cache.  An adapter object holds the token    *)
(* and its expiry (milliseconds); requested counts the token requests it   *)
(* made, pending those not yet answered, and result is what the            *)
(* getAccessToken step just taken did.  fetchedAt and expiresIn keep when  *)
(* the cached token arrived (seconds) and the lifetime PayPal declared.    *)
(***************************************************************************)
NoResult == [kind |-> None, token |-> Undefined]

\* the constructor: accessToken = null, tokenExpiry = null
NewPayPalAdapter ==
  [accessToken |-> Undefined, tokenExpiry |-> Undefined,
   fetchedAt |-> 0, expiresIn |-> 0,
   requested |-> 0, pending |-> 0, result |-> NoResult]

\* Date.now() at clock time t
DateNow(t) == t * 1000

\* an expiry that trusts the token for its whole declared lifetime
tokenExpiryWithoutMargin(t, expires_in) == DateNow(t) + expires_in * 1000

\* Date.now() + (data.expires_in - 300) * 1000
tokenExpiry(t, expires_in) == DateNow(t) + (expires_in - 300) * 1000

\* this.accessToken && this.tokenExpiry && Date.now() < this.tokenExpiry
tokenCached(adapter, t) ==
  /\ ~Falsy(adapter.accessToken, "")
  /\ ~Falsy(adapter.tokenExpiry, 0)
  /\ DateNow(t) < adapter.tokenExpiry[1]

PaddleSessionId == "txn_123"
PayPalOrderId == "ORDER_1"
PaddleSubscriptionId == "sub_123"
PayPalSubscriptionId == "I-SUB1"

\* an adapter that still holds the token an earlier request obtained
PayPalCallWithWarmCache(request, remote, value, msg) ==
  IF remote = "ok"
  THEN Returned(value, <<request>>)
  ELSE Threw(msg, <<request>>, 1)

\* an adapter that goes on to its call when the token request failed
PayPalCallWithoutToken(request, remote, value, msg) ==
  IF remote = "error"
  THEN Threw(msg, <<PayPalToken, request>>, 1)
  ELSE Returned(value, <<PayPalToken, request>>)

\* what PayPal answers with no token: both catch blocks log
PayPalCall(request, remote, value, msg) ==
  IF remote = "token_error"
  THEN Threw("Failed to get PayPal access token", <<PayPalToken>>, 2)
  ELSE IF remote = "error"
  THEN Threw(msg, <<PayPalToken, request>>, 1)
  ELSE Returned(value, <<PayPalToken, request>>)

\* an adapter that does not look at response.ok
PaddleCallUnchecked(request, remote, value, msg) == Returned(value, <<request>>)

PaddleCall(request, remote, value, msg) ==
  IF remote = "ok" THEN Returned(value, <<request>>) ELSE Threw(msg, <<request>>, 1)

\* a stub that returns an empty result instead of throwing
NotImplementedNoOp(msg) ==
  Returned([sessionId |-> None, subscriptionId |-> None, provider |-> "stripe"], <<>>)

NotImplemented(msg) == Threw(msg, <<>>, 0)

createCheckoutSession(adapter, payload, remote) ==
  CASE adapter = "paddle" ->
         PaddleCall(Request("paddle", "POST /transactions", OrElse(payload.currency, "USD")),
                    remote,
                    [sessionId |-> PaddleSessionId, provider |-> "paddle"],
                    "Paddle API error")
    [] adapter = "paypal" ->
         PayPalCall(Request("paypal", "POST /v2/checkout/orders", OrElse(payload.currency, "USD")),
                    remote,
                    [sessionId |-> PayPalOrderId, provider |-> "paypal"],
                    "PayPal API error")
    [] OTHER -> NotImplemented("Stripe adapter not yet implemented. Coming soon!")

adapterGetSession(adapter, sessionId, remote) ==
  CASE adapter = "paddle" ->
         PaddleCall(Request("paddle", "GET /transactions/{id}", <<sessionId>>), remote,
                    [id |-> sessionId, from |-> "paddle"],
                    "Failed to get Paddle session")
    [] adapter = "paypal" ->
         PayPalCall(Request("paypal", "GET /v2/checkout/orders/{id}", <<sessionId>>), remote,
                    [id |-> sessionId, from |-> "paypal"],
                    "Failed to get PayPal order")
    [] OTHER -> NotImplemented("Stripe session retrieval not yet implemented. Coming soon!")

createSubscription(adapter, payload, remote) ==
  CASE adapter = "paddle" ->
         PaddleCall(Request("paddle", "POST /subscriptions", payload.priceId), remote,
                    [subscriptionId |-> PaddleSubscriptionId, provider |-> "paddle"],
                    "Paddle subscription error")
    [] adapter = "paypal" ->
         PayPalCall(Request("paypal", "POST /v1/billing/subscriptions", payload.planId), remote,
                    [subscriptionId |-> PayPalSubscriptionId, provider |-> "paypal"],
                    "PayPal subscription error")
    [] OTHER -> NotImplemented("Stripe subscription creation not yet implemented. Coming soon!")

\* an adapter that cancels at PayPal whoever it is
cancelSubscriptionAtPayPal(adapter, subscriptionId, remote) ==
  PayPalCall(Request("paypal", "POST /v1/billing/subscriptions/{id}/cancel", <<subscriptionId>>),
             remote,
             [status |-> "cancelled", subscriptionId |-> subscriptionId],
             "Failed to cancel PayPal subscription")

cancelSubscription(adapter, subscriptionId, remote) ==
  CASE adapter = "paddle" ->
         PaddleCall(Request("paddle", "POST /subscriptions/{id}/cancel", <<subscriptionId>>), remote,
                    [id |-> subscriptionId, from |-> "paddle"],
                    "Failed to cancel Paddle subscription")
    [] adapter = "paypal" ->
         PayPalCall(Request("paypal", "POST /v1/billing/subscriptions/{id}/cancel", <<subscriptionId>>),
                    remote,
                    [status |-> "cancelled", subscriptionId |-> subscriptionId],
                    "Failed to cancel PayPal subscription")
    [] OTHER -> NotImplemented("Stripe subscription cancellation not yet implemented. Coming soon!")

(***************************************************************************)
(* The handlers of the JSON API (router.js).  A handler runs against the   *)
(* session store kvS and the metrics store kvM at time t; remote is the    *)
(* processor's answer and fault the one store operation that fails, if     *)
(* any.  It yields the call with its response and a record of what it did, *)
(* and the two stores as it leaves them.                                   *)
(***************************************************************************)
IdleCall ==
  [op |-> None, input |-> Undefined, status |-> 0, success |-> FALSE,
   error |-> None, message |-> None, data |-> Undefined,
   adapter |-> None, processorCalls |-> <<>>, adapterCalls |-> 0,
   remote |-> None, adapterError |-> None,
   sessionReads |-> 0, sessionWrites |-> 0, stored |-> Undefined,
   counterReads |-> 0, counterWrites |-> 0,
   errorLogs |-> 0, errorIncrements |-> 0]

\* a cancellation that answers and drops the record it looked up
successResponseForgetting(call, data, message, kvS, kvM) ==
  [call |-> [call EXCEPT !.status = HttpOk, !.success = TRUE,
                         !.data = <<data>>, !.message = message],
   sessions |-> IF call.op = "cancel"
                THEN [k \in DOMAIN kvS \ {<<"session", call.input[1]>>} |-> kvS[k]]
                ELSE kvS,
   metrics |-> kvM]

\* successResponse(data, message)
successResponse(call, data, message, kvS, kvM) ==
  [call |-> [call EXCEPT !.status = HttpOk, !.success = TRUE,
                         !.data = <<data>>, !.message = message],
   sessions |-> kvS, metrics |-> kvM]

\* errorResponse(message, status) from the handler's body
errorResponse(call, message, status, kvS, kvM) ==
  [call |-> [call EXCEPT !.status = status, !.error = message],
   sessions |-> kvS, metrics |-> kvM]

\* the handler's catch: logger.error, then errorResponse(error.message, status)
Caught(call, message, status, kvS, kvM) ==
  errorResponse([call EXCEPT !.errorLogs = @ + 1], message, status, kvS, kvM)

BadRequestStatus == 400
NotFoundStatus == 404
ServerErrorStatus == 500

\* the adapter was resolved and asked once, the processor answering remote;
\* r is what the adapter made of it
Asked(call, adapter, r, remote) ==
  [call EXCEPT !.adapter = getName(adapter), !.adapterCalls = @ + 1,
               !.processorCalls = r.calls, !.errorLogs = @ + r.logs,
               !.remote = IF r.calls = <<>> THEN None ELSE remote,
               !.adapterError = r.error]

\* incrementCounter(env.METRICS, key) at the end of a handler that goes on to
\* answer with data and message
CountAndAnswer(call, key, data, message, fault, kvS, kvM, t) ==
  IF fault = "metric_get"
  THEN Caught([call EXCEPT !.counterReads = 1], "KV GET failed", ServerErrorStatus, kvS, kvM)
  ELSE IF fault = "metric_put"
  THEN Caught([call EXCEPT !.counterReads = 1, !.counterWrites = 1],
              "KV PUT failed", ServerErrorStatus, kvS, kvM)
  ELSE successResponse([call EXCEPT !.counterReads = 1, !.counterWrites = 1],
                       data, message, kvS,
                       counterWrite(kvM, key, counterRead(kvM, key, t), t))

\* a validation that lets a checkout without amount through
MissingCheckoutFieldsButAmount(body) ==
  \/ Falsy(body.provider, "") \/ Falsy(body.userId, "") \/ Falsy(body.email, "")
  \/ Falsy(body.productName, "")

\* a validation that takes an amount of 0 for an amount
MissingCheckoutFieldsButZero(body) ==
  \/ Falsy(body.provider, "") \/ Falsy(body.userId, "") \/ Falsy(body.email, "")
  \/ body.amount = Undefined \/ Falsy(body.productName, "")

\* !provider || !userId || !email || !amount || !productName
MissingCheckoutFields(body) ==
  \/ Falsy(body.provider, "") \/ Falsy(body.userId, "") \/ Falsy(body.email, "")
  \/ Falsy(body.amount, 0) \/ Falsy(body.productName, "")

handleCheckout(body, remote, fault, kvS, kvM, t) ==
  LET c0 == [IdleCall EXCEPT !.op = "checkout", !.input = <<body>>]
  IN IF MissingCheckoutFields(body)
     THEN errorResponse(c0, "Missing required fields", BadRequestStatus, kvS, kvM)
     ELSE LET a == getProviderAdapter(body.provider[1])
          IN IF ~a.ok
             THEN Caught(c0, a.error, ServerErrorStatus, kvS, kvM)
             ELSE LET r == createCheckoutSession(
                             a.adapter,
                             [body EXCEPT !.currency = OrElse(body.currency, "USD")],
                             remote)
                      c1 == Asked(c0, a.adapter, r, remote)
                      data == [userId |-> body.userId, provider |-> body.provider,
                               email |-> body.email, amount |-> body.amount,
                               currency |-> body.currency,
                               productName |-> body.productName, createdAt |-> t]
                  IN IF ~r.ok
                     THEN Caught(c1, r.error, ServerErrorStatus, kvS, kvM)
                     ELSE IF fault = "session_put"
                     THEN Caught([c1 EXCEPT !.sessionWrites = 1], "KV PUT failed",
                                 ServerErrorStatus, kvS, kvM)
                     ELSE CountAndAnswer(
                            [c1 EXCEPT !.sessionWrites = 1, !.stored = <<r.value.sessionId>>],
                            CheckoutCounterKey(body.provider[1], t),
                            r.value, "Checkout session created successfully", fault,
                            storeSession(kvS, r.value.sessionId, data, SessionTtl, t),
                            kvM, t)

handleReceipt(sessionId, remote, fault, kvS, kvM, t) ==
  LET c0 == [IdleCall EXCEPT !.op = "receipt", !.input = <<sessionId>>, !.sessionReads = 1]
      session == getSession(kvS, sessionId, t)
  IN IF fault = "session_get"
     THEN Caught(c0, "KV GET failed", ServerErrorStatus, kvS, kvM)
     ELSE IF session = Undefined
     THEN errorResponse(c0, "Session not found", NotFoundStatus, kvS, kvM)
     ELSE LET a == getProviderAdapter(session[1].provider[1])
          IN IF ~a.ok
             THEN Caught(c0, a.error, ServerErrorStatus, kvS, kvM)
             ELSE LET r == adapterGetSession(a.adapter, sessionId, remote)
                      c1 == Asked(c0, a.adapter, r, remote)
                  IN IF ~r.ok
                     THEN Caught(c1, r.error, ServerErrorStatus, kvS, kvM)
                     ELSE successResponse(c1, [session |-> session[1],
                                               providerDetails |-> r.value],
                                          "Receipt retrieved successfully", kvS, kvM)

\* a validation that asks for no plan or price identifier
MissingSubscriptionFieldsButPlan(body) ==
  \/ Falsy(body.provider, "") \/ Falsy(body.userId, "") \/ Falsy(body.email, "")

\* !provider || !userId || !email || (!planId && !priceId)
MissingSubscriptionFields(body) ==
  \/ Falsy(body.provider, "") \/ Falsy(body.userId, "") \/ Falsy(body.email, "")
  \/ (Falsy(body.planId, "") /\ Falsy(body.priceId, ""))

handleSubscriptionCreate(body, remote, fault, kvS, kvM, t) ==
  LET c0 == [IdleCall EXCEPT !.op = "subscribe", !.input = <<body>>]
  IN IF MissingSubscriptionFields(body)
     THEN errorResponse(c0, "Missing required fields", BadRequestStatus, kvS, kvM)
     ELSE LET a == getProviderAdapter(body.provider[1])
          IN IF ~a.ok
             THEN Caught(c0, a.error, ServerErrorStatus, kvS, kvM)
             ELSE LET r == createSubscription(a.adapter, body, remote)
                      c1 == Asked(c0, a.adapter, r, remote)
                      data == [userId |-> body.userId, provider |-> body.provider,
                               email |-> body.email, type |-> <<"subscription">>,
                               planId |-> IF Falsy(body.planId, "") THEN body.priceId
                                          ELSE body.planId,
                               createdAt |-> t]
                  IN IF ~r.ok
                     THEN Caught(c1, r.error, ServerErrorStatus, kvS, kvM)
                     ELSE IF fault = "session_put"
                     THEN Caught([c1 EXCEPT !.sessionWrites = 1], "KV PUT failed",
                                 ServerErrorStatus, kvS, kvM)
                     ELSE successResponse(
                            [c1 EXCEPT !.sessionWrites = 1, !.stored = <<r.value.subscriptionId>>],
                            r.value, "Subscription created successfully",
                            storeSession(kvS, r.value.subscriptionId, data, SubscriptionTtl, t),
                            kvM)

handleSubscriptionCancel(subscriptionId, remote, fault, kvS, kvM, t) ==
  LET c0 == [IdleCall EXCEPT !.op = "cancel", !.input = <<subscriptionId>>, !.sessionReads = 1]
      subscription == getSession(kvS, subscriptionId, t)
  IN IF fault = "session_get"
     THEN Caught(c0, "KV GET failed", ServerErrorStatus, kvS, kvM)
     ELSE IF subscription = Undefined
     THEN errorResponse(c0, "Subscription not found", NotFoundStatus, kvS, kvM)
     ELSE LET a == getProviderAdapter(subscription[1].provider[1])
          IN IF ~a.ok
             THEN Caught(c0, a.error, ServerErrorStatus, kvS, kvM)
             ELSE LET r == cancelSubscription(a.adapter, subscriptionId, remote)
                      c1 == Asked(c0, a.adapter, r, remote)
                  IN IF ~r.ok
                     THEN Caught(c1, r.error, ServerErrorStatus, kvS, kvM)
                     ELSE successResponse(c1, r.value,
                                          "Subscription cancelled successfully", kvS, kvM)

(***************************************************************************)
(* State.  req[s] is the request running in slot s: its position, what it  *)
(* learned so far and a record of what it did.  last is the request that   *)
(* completed in the step just taken, with the response it got (the idle    *)
(* request when the step completed none).  hist[k] is the history of the   *)
(* ledger key k = <<path segment, event id>>.  lapsed is the set of the     *)
(* session store's keys whose record has run out of its TTL.               *)
(***************************************************************************)
IdleRequest ==
  [pc |-> "idle", provider |-> None, eventId |-> None, eventType |-> None,
   sig |-> None, verified |-> FALSE, alreadyProcessed |-> FALSE,
   marked |-> FALSE, raced |-> FALSE,
   status |-> 0, message |-> None, received |-> FALSE,
   mkey |-> <<>>, cur |-> 0,
   processorRequests |-> 0, timestamp |-> Undefined,
   evReads |-> 0, evWrites |-> 0, forwards |-> 0, fwdResult |-> None,
   counterReads |-> 0, counterWrites |-> 0, errorLogs |-> 0, errorIncrements |-> 0,
   fault |-> None]

HistKeys == ProviderSegments \X EventIds

NoHistory ==
  [started |-> 0, ok |-> 0, fwd |-> 0, got |-> 0,
   overlap |-> FALSE, crashed |-> FALSE, dropped |-> FALSE, void |-> FALSE,
   expired |-> FALSE]

\* a history in which the store failed or the marker expired is followed no
\* further
Void == [NoHistory EXCEPT !.void = TRUE]

\* The handlers log through the logger they are handed: the worker's Logger
\* (createLogger(request, env)), whose _log at level ERROR increments the
\* error key when env.METRICS is bound, or a logger that only logs (the
\* tests' mock).  The n error logs of a request are n increments, or none.
Loggers == {"Logger", "mock"}

ErrorIncrements(lg, n) == IF lg = "Logger" THEN n ELSE 0

\* util is the call of a helper of utils/webhook.js made in the step just
\* taken, with what it was given and what came of it
IdleUtil ==
  [fn |-> None, payload |-> <<>>, signature |-> <<>>, secret |-> "",
   timestamp |-> 0, toleranceSeconds |-> 0, threw |-> FALSE, value |-> FALSE]

InFlight(r) == r.pc \in {"check", "mark", "forward", "metric_get", "metric_put"}

KeyOf(r) == <<r.provider, r.eventId>>

Init ==
  /\ now = 0
  /\ ticks = 0
  /\ deliveries = 0
  /\ logger \in Loggers
  /\ EVENTS = EmptyKv
  /\ METRICS = EmptyKv
  /\ req = [s \in Slots |-> IdleRequest]
  /\ last = IdleRequest
  /\ hist = [k \in HistKeys |-> NoHistory]
  /\ SESSIONS = EmptyKv
  /\ api = IdleCall
  /\ paypal = NewPayPalAdapter
  /\ lapsed = {}
  /\ util = IdleUtil

\* successResponse({ received: true }, message)
Success(r, msg) ==
  [r EXCEPT !.pc = "done", !.status = HttpOk, !.message = msg, !.received = TRUE]

\* the outer catch: logger.error, then errorResponse(error.message, 400)
Catch(r, msg, why) ==
  [r EXCEPT !.pc = "done", !.status = WebhookErrorStatus, !.message = msg,
            !.errorLogs = @ + 1, !.fault = why]

Completed(h, r) ==
  IF r.fault \notin {None, "crash"} THEN Void
  ELSE [h EXCEPT !.ok = IF r.status = HttpOk THEN @ + 1 ELSE @,
                 !.crashed = @ \/ r.pc = "crashed"]

\* the n error logs of a request as increments of the error key
RECURSIVE incrementErrorMetrics(_, _, _)
incrementErrorMetrics(kv, j, t) ==
  IF j = 0 THEN kv ELSE incrementErrorMetrics(incrementErrorMetric(kv, t), j - 1, t)

\* the request of slot s goes on as r1, or completes as r1 with j of its
\* error logs counted; the history of its key becomes h1
Step(s, r1, h1, metrics) ==
  IF r1.pc \in {"done", "crashed"}
  THEN LET j == ErrorIncrements(logger, r1.errorLogs) IN
         /\ req' = [req EXCEPT ![s] = IdleRequest]
         /\ last' = [r1 EXCEPT !.errorIncrements = j, !.mkey = <<>>, !.cur = 0]
         /\ METRICS' = incrementErrorMetrics(metrics, j, now)
         /\ hist' = IF ~r1.verified \/ hist[KeyOf(r1)].void THEN hist
                    ELSE [hist EXCEPT ![KeyOf(r1)] = Completed(h1, r1)]
  ELSE /\ req' = [req EXCEPT ![s] = r1]
       /\ METRICS' = metrics
       /\ hist' = IF hist[KeyOf(r1)].void THEN hist
                  ELSE [hist EXCEPT ![KeyOf(r1)] = h1]
       /\ last' = IdleRequest

FirstFree(s) ==
  \E i \in DOMAIN SlotOrder :
    /\ SlotOrder[i] = s
    /\ req[s].pc = "idle"
    /\ \A j \in DOMAIN SlotOrder : j < i => req[SlotOrder[j]].pc # "idle"

(***************************************************************************)
(* POST /api/webhook/{provider}: resolve the adapter and verify.  Both     *)
(* touch only the request and the processor, so they are one step.         *)
(***************************************************************************)
Receive(s, w) ==
  /\ deliveries < MaxDeliveries
  /\ FirstFree(s)
  /\ deliveries' = deliveries + 1
  /\ LET a == getProviderAdapter(w.provider)
         v == IF a.ok THEN verifyWebhook(a.adapter, w) ELSE Thrown(a.error, 0, 0, 0)
         r0 == [IdleRequest EXCEPT !.provider = w.provider, !.sig = SignatureClass(w),
                                   !.eventId = v.event.eventId,
                                   !.eventType = v.event.eventType,
                                   !.errorLogs = v.logs,
                                   !.processorRequests = v.tokenRequests + v.verifyRequests,
                                   !.timestamp = sigPart(w.headers["paddle-signature"], "ts")]
         k == KeyOf(r0)
     IN IF v.ok
        THEN Step(s, [r0 EXCEPT !.pc = "check", !.verified = TRUE],
                  [hist[k] EXCEPT !.started = @ + 1,
                                  !.overlap = @ \/ \E o \in Slots \ {s} :
                                                     InFlight(req[o]) /\ KeyOf(req[o]) = k],
                  METRICS)
        ELSE Step(s, Catch(r0, v.error, None), NoHistory, METRICS)
  /\ api' = IdleCall
  /\ UNCHANGED <<now, ticks, logger, EVENTS, SESSIONS, paypal, lapsed, util>>

\* await isEventProcessed(env.EVENTS, provider, event.eventId)
Check(s) ==
  /\ req[s].pc = "check"
  /\ \E outcome \in {"ok", "fault"} :
       LET r == [req[s] EXCEPT !.evReads = @ + 1]
           ap == isEventProcessed(EVENTS, r.provider, r.eventId, now)
           k == KeyOf(r)
       IN IF outcome = "fault"
          THEN Step(s, Catch(r, "KV GET failed", "ledger_read"), hist[k], METRICS)
          ELSE IF AfterCheck(ap) = "done"
          THEN Step(s, Success([r EXCEPT !.alreadyProcessed = ap], "Event already processed"),
                    hist[k], METRICS)
          ELSE Step(s, [r EXCEPT !.alreadyProcessed = ap, !.pc = AfterCheck(ap)],
                    hist[k], METRICS)
  /\ UNCHANGED <<now, ticks, deliveries, logger, EVENTS, SESSIONS, api, paypal, lapsed, util>>

\* await markEventProcessed(env.EVENTS, provider, event.eventId, {...})
Mark(s) ==
  /\ req[s].pc = "mark"
  /\ \E outcome \in {"ok", "fault"} :
       LET r == [req[s] EXCEPT !.evWrites = @ + 1, !.marked = (outcome = "ok"),
                               !.raced = isEventProcessed(EVENTS, req[s].provider,
                                                           req[s].eventId, now)]
           k == KeyOf(r)
       IN /\ EVENTS' = IF outcome = "ok"
                       THEN markEventProcessed(EVENTS, r.provider, r.eventId,
                              [eventType |-> r.eventType, processedAt |-> now], now)
                       ELSE EVENTS
          /\ IF AfterMark(outcome) = "catch"
             THEN Step(s, Catch(r, "KV PUT failed", "ledger_write"), hist[k], METRICS)
             ELSE Step(s, [r EXCEPT !.pc = AfterMark(outcome)], hist[k], METRICS)
  /\ UNCHANGED <<now, ticks, deliveries, logger, SESSIONS, api, paypal, lapsed, util>>

\* await fetch(`${env.INTERNAL_BACKEND_URL}/internal/payment/notify`, ...)
Forward(s) ==
  /\ req[s].pc = "forward"
  /\ \E result \in {"ok", "non2xx", "neterr"} :
       LET r == [req[s] EXCEPT !.forwards = @ + 1, !.fwdResult = result,
                               !.errorLogs = @ + ForwardErrorLogs(result)]
           k == KeyOf(r)
           h == [hist[k] EXCEPT !.fwd = @ + 1,
                                !.got = IF result = "ok" THEN @ + 1 ELSE @,
                                !.dropped = @ \/ result # "ok"]
       IN IF AfterForward(result) = "catch"
          THEN Step(s, Catch(r, "Backend notification failed", "backend"), h, METRICS)
          ELSE Step(s, [r EXCEPT !.pc = AfterForward(result)], h, METRICS)
  /\ UNCHANGED <<now, ticks, deliveries, logger, EVENTS, SESSIONS, api, paypal, lapsed, util>>

\* incrementCounter: const current = (await kv.get(counterKey)) || '0'
CounterRead(s) ==
  /\ req[s].pc = "metric_get"
  /\ \E outcome \in {"ok", "fault"} :
       LET key == WebhookCounterKey(req[s].provider, req[s].eventType, now)
           r == [req[s] EXCEPT !.counterReads = @ + 1, !.mkey = key,
                               !.cur = IF outcome = "ok" THEN counterRead(METRICS, key, now) ELSE 0]
       IN IF AfterCounterRead(outcome) = "catch"
          THEN Step(s, Catch(r, "KV GET failed", "metric_read"), hist[KeyOf(r)], METRICS)
          ELSE Step(s, [r EXCEPT !.pc = AfterCounterRead(outcome)], hist[KeyOf(r)], METRICS)
  /\ UNCHANGED <<now, ticks, deliveries, logger, EVENTS, SESSIONS, api, paypal, lapsed, util>>

\* incrementCounter: await kv.put(counterKey, newValue, { expirationTtl: ttl })
CounterWrite(s) ==
  /\ req[s].pc = "metric_put"
  /\ \E outcome \in {"ok", "fault"} :
       LET r == [req[s] EXCEPT !.counterWrites = @ + 1]
           metrics == IF outcome = "ok"
                      THEN counterWrite(METRICS, r.mkey, r.cur, now)
                      ELSE METRICS
       IN IF AfterCounterWrite(outcome) = "catch"
          THEN Step(s, Catch(r, "KV PUT failed", "metric_write"), hist[KeyOf(r)], metrics)
          ELSE Step(s, Success(r, "Webhook processed successfully"), hist[KeyOf(r)], metrics)
  /\ UNCHANGED <<now, ticks, deliveries, logger, EVENTS, SESSIONS, api, paypal, lapsed, util>>

\* the worker is terminated between the marker write and the forward
Crash(s) ==
  /\ req[s].pc = "forward"
  /\ Step(s, [req[s] EXCEPT !.pc = "crashed", !.fault = "crash"],
          [hist[KeyOf(req[s])] EXCEPT !.dropped = @ \/ req[s].pc = "forward"], METRICS)
  /\ UNCHANGED <<now, ticks, deliveries, logger, EVENTS, SESSIONS, api, paypal, lapsed, util>>

\* time passes; the store drops the keys whose expirationTtl has elapsed.
\* A step is days long and a request lives for seconds, so none is in flight.
Tick(step) ==
  /\ ticks < MaxTicks
  /\ \A s \in Slots : ~InFlight(req[s])
  /\ ticks' = ticks + 1
  /\ now' = now + step
  /\ EVENTS' = KvPurge(EVENTS, now + step)
  /\ METRICS' = KvPurge(METRICS, now + step)
  /\ hist' = [k \in HistKeys |->
               IF EvtKey(k[1], k[2]) \in DOMAIN EVENTS /\ EvtKey(k[1], k[2]) \notin DOMAIN EVENTS'
               THEN [Void EXCEPT !.expired = TRUE] ELSE hist[k]]
  /\ last' = IdleRequest
  /\ SESSIONS' = KvPurge(SESSIONS, now + step)
  /\ lapsed' = lapsed \cup (DOMAIN SESSIONS \ DOMAIN KvPurge(SESSIONS, now + step))
  /\ api' = IdleCall
  /\ UNCHANGED <<deliveries, logger, req, paypal, util>>

Next ==
  \/ \E s \in Slots, w \in WebhookRequests : Receive(s, w)
  \/ \E s \in Slots : Check(s)
  \/ \E s \in Slots : Mark(s)
  \/ \E s \in Slots : Forward(s)
  \/ \E s \in Slots : CounterRead(s)
  \/ \E s \in Slots : CounterWrite(s)
  \/ \E s \in Slots : Crash(s)
  \/ \E step \in TickSteps : Tick(step)

Spec == Init /\ [][Next]_vars

(***************************************************************************)
(* Deliveries of validly signed Paddle events on the path segments         *)
(* 'paddle' and 'PADDLE', one after the other: route hands the segment as  *)
(* it is spelled to handleWebhook, which resolves the adapter from it and  *)
(* builds the ledger key from it.                                          *)
(***************************************************************************)
CaseSegments == {"paddle", "PADDLE"}

CaseRequests ==
  { [r EXCEPT !.provider = p] :
      r \in {x \in PaddleRequests : PaddleVerifyWebhook(x).ok}, p \in CaseSegments }

CaseReceive(s, w) ==
  /\ \A s2 \in Slots : ~InFlight(req[s2])
  /\ Receive(s, w)

CaseNext ==
  \/ \E s \in Slots, w \in CaseRequests : CaseReceive(s, w)
  \/ \E s \in Slots : Check(s)
  \/ \E s \in Slots : Mark(s)
  \/ \E s \in Slots : Forward(s)
  \/ \E s \in Slots : CounterRead(s)
  \/ \E s \in Slots : CounterWrite(s)
  \/ \E s \in Slots : Crash(s)
  \/ \E step \in TickSteps : Tick(step)

CaseSpec == Init /\ [][CaseNext]_vars

(***************************************************************************)
(* The pipeline with the scheduling the runtime gives it: a request whose  *)
(* store operation is due gets it answered.  The backend answers the       *)
(* forward when it does; the await of that fetch carries no timeout, so    *)
(* nothing obliges the Forward step to happen.                             *)
(***************************************************************************)
LiveSpec ==
  /\ Spec
  /\ WF_vars(\E s \in Slots : Check(s))
  /\ WF_vars(\E s \in Slots : Mark(s))
  /\ WF_vars(\E s \in Slots : CounterRead(s))
  /\ WF_vars(\E s \in Slots : CounterWrite(s))

(***************************************************************************)
(* The requests of the JSON API and its specification: the four handlers,  *)
(* the webhooks that no adapter serves, and the clock.                     *)
(***************************************************************************)
ProviderNames ==
  ProviderSegments \cup {"Paddle", "PayPal", "PAYPAL", "Stripe", "STRIPE", "paddle "}

Currencies == {Undefined, <<"EUR">>}

CheckoutBody(p, cur) ==
  [provider |-> <<p>>, userId |-> <<"user_123">>, email |-> <<"test@example.com">>,
   amount |-> <<1000>>, currency |-> cur, productName |-> <<"Test Product">>]

RequiredCheckoutFields == {"provider", "userId", "email", "amount", "productName"}

CheckoutBodies ==
  {CheckoutBody(p, <<"EUR">>) : p \in ProviderNames}
  \cup {CheckoutBody(p, cur) : p \in {"paddle", "paypal"}, cur \in Currencies}
  \cup {[CheckoutBody("paddle", <<"EUR">>) EXCEPT ![f] = Undefined] : f \in RequiredCheckoutFields}
  \cup {[CheckoutBody("paddle", <<"EUR">>) EXCEPT !.amount = <<0>>],
        [CheckoutBody("paddle", <<"EUR">>) EXCEPT !.email = <<"">>],
        [CheckoutBody("paddle", <<"EUR">>) EXCEPT !.amount = <<2500>>,
                                                  !.productName = <<"Other Product">>]}

SubscriptionBody(p, plan, price) ==
  [provider |-> <<p>>, userId |-> <<"user_123">>, email |-> <<"test@example.com">>,
   planId |-> plan, priceId |-> price]

SubscriptionBodies ==
  {SubscriptionBody(p, <<"plan_1">>, <<"pri_1">>) : p \in ProviderSegments \cup {"PayPal"}}
  \cup {SubscriptionBody("paddle", Undefined, Undefined),
        SubscriptionBody("paypal", <<"plan_1">>, Undefined),
        SubscriptionBody("paypal", Undefined, <<"pri_1">>),
        [SubscriptionBody("paddle", Undefined, <<"pri_1">>) EXCEPT !.userId = Undefined],
        [SubscriptionBody("paddle", Undefined, <<"pri_1">>) EXCEPT !.provider = Undefined],
        [SubscriptionBody("paddle", Undefined, <<"pri_1">>) EXCEPT !.email = <<"">>]}

RecordIds ==
  {PaddleSessionId, PayPalOrderId, PaddleSubscriptionId, PayPalSubscriptionId, "unknown_id"}

RemoteAnswers == {"ok", "error", "token_error"}

\* how a request goes: the processor's answer and, when that is "ok", the one
\* store operation among faults that fails, if any
Outcomes(faults) ==
  {<<remote, None>> : remote \in RemoteAnswers} \cup {<<"ok", fault>> : fault \in faults}

\* deliveries whose path segment names no adapter
UnsupportedWebhooks == {w \in WebhookRequests : ~getProviderAdapter(w.provider).ok}

\* deliveries to the adapter that is not implemented
UnimplementedWebhooks == {w \in WebhookRequests : toLowerCase(w.provider) = "stripe"}

\* a handler of the API ran as h from request to response
ApiStep(h) ==
  LET j == ErrorIncrements(logger, h.call.errorLogs)
  IN /\ deliveries < MaxDeliveries
     /\ deliveries' = deliveries + 1
     /\ api' = [h.call EXCEPT !.errorIncrements = j]
     /\ SESSIONS' = h.sessions
     /\ METRICS' = incrementErrorMetrics(h.metrics, j, now)
     /\ last' = IdleRequest
     /\ UNCHANGED <<now, ticks, logger, EVENTS, req, hist, paypal, lapsed, util>>

\* POST /api/checkout
Checkout(body, remote, fault) ==
  ApiStep(handleCheckout(body, remote, fault, SESSIONS, METRICS, now))

\* GET /api/receipt/{sessionId}
Receipt(sessionId, remote, fault) ==
  ApiStep(handleReceipt(sessionId, remote, fault, SESSIONS, METRICS, now))

\* POST /api/subscription
SubscriptionCreate(body, remote, fault) ==
  ApiStep(handleSubscriptionCreate(body, remote, fault, SESSIONS, METRICS, now))

\* DELETE /api/subscription/{subscriptionId}
SubscriptionCancel(subscriptionId, remote, fault) ==
  ApiStep(handleSubscriptionCancel(subscriptionId, remote, fault, SESSIONS, METRICS, now))

\* the clock is followed from one expiry of a stored record to the next
ExpirySteps == {SESSIONS[k].exp - now : k \in DOMAIN SESSIONS}

ApiNext ==
  \/ \E body \in CheckoutBodies, o \in Outcomes({"session_put", "metric_get", "metric_put"}) :
       Checkout(body, o[1], o[2])
  \/ \E id \in RecordIds, o \in Outcomes({"session_get"}) :
       Receipt(id, o[1], o[2])
  \/ \E body \in SubscriptionBodies, o \in Outcomes({"session_put"}) :
       SubscriptionCreate(body, o[1], o[2])
  \/ \E id \in RecordIds, o \in Outcomes({"session_get"}) :
       SubscriptionCancel(id, o[1], o[2])
  \/ \E s \in Slots, w \in UnsupportedWebhooks \cup UnimplementedWebhooks : Receive(s, w)
  \/ \E step \in ExpirySteps : Tick(step)

ApiSpec == Init /\ [][ApiNext]_vars

(***************************************************************************)
(* One PayPal adapter object over time: calls of getAccessToken, the       *)
(* answers of PayPal's token endpoint, and the clock.                      *)
(***************************************************************************)
\* expires_in as PayPal declares it; one lifetime is shorter than the margin
ExpiresIn == {3600, 200}

ElapseSteps == {1, 300, 2999}

\* access_token of the n-th token PayPal hands out
AccessTokens == <<"token_1", "token_2", "token_3", "token_4">>

TokenStep(adapter, metrics) ==
  /\ paypal' = adapter
  /\ METRICS' = metrics
  /\ UNCHANGED <<now, ticks, deliveries, logger, EVENTS, req, last, hist, SESSIONS, api, lapsed, util>>

\* getAccessToken() up to its await: the cached token, or a token request
GetAccessToken ==
  IF tokenCached(paypal, now)
  THEN TokenStep([paypal EXCEPT !.result = [kind |-> "cached", token |-> paypal.accessToken]],
                 METRICS)
  ELSE /\ paypal.requested < MaxTokenRequests
       /\ paypal.requested < Len(AccessTokens)
       /\ TokenStep([paypal EXCEPT !.requested = @ + 1, !.pending = @ + 1,
                                   !.result = [kind |-> "requested", token |-> Undefined]],
                    METRICS)

\* the token endpoint answers ok: the token and its expiry are kept
TokenGranted(expires_in) ==
  /\ paypal.pending > 0
  /\ LET token == AccessTokens[paypal.requested - paypal.pending + 1]
     IN TokenStep([paypal EXCEPT !.pending = @ - 1,
                                 !.accessToken = <<token>>,
                                 !.tokenExpiry = <<tokenExpiry(now, expires_in)>>,
                                 !.fetchedAt = now, !.expiresIn = expires_in,
                                 !.result = [kind |-> "fetched", token |-> <<token>>]],
                  METRICS)

\* the token endpoint answers with an error: logger.error, throw
TokenRefused ==
  /\ paypal.pending > 0
  /\ TokenStep([paypal EXCEPT !.pending = @ - 1,
                              !.result = [kind |-> "failed", token |-> Undefined]],
               incrementErrorMetrics(METRICS, ErrorIncrements(logger, 1), now))

Elapse(step) ==
  /\ ticks < MaxElapses
  /\ ticks' = ticks + 1
  /\ now' = now + step
  /\ paypal' = [paypal EXCEPT !.result = NoResult]
  /\ METRICS' = KvPurge(METRICS, now + step)
  /\ UNCHANGED <<deliveries, logger, EVENTS, req, last, hist, SESSIONS, api, lapsed, util>>

TokenNext ==
  \/ GetAccessToken
  \/ \E expires_in \in ExpiresIn : TokenGranted(expires_in)
  \/ TokenRefused
  \/ \E step \in ElapseSteps : Elapse(step)

TokenSpec == Init /\ [][TokenNext]_vars

(***************************************************************************)
(* The helpers of utils/webhook.js called on their own: the signature      *)
(* verifier on payloads, signature texts and secrets, the timestamp check  *)
(* on timestamps and tolerances as the clock moves.  A signature text is   *)
(* the sequence of its segments between '=' characters, the text that is   *)
(* not there the empty sequence; a secret that is not set is the empty     *)
(* text.                                                                   *)
(***************************************************************************)
Payloads == {<<SignatureTimestamp, PaddleBody(e, t)>> : e \in EventIds, t \in EventTypes}

Secrets == {PaddleWebhookSecret, "attacker_secret", ""}

Tags == {"sha256", "v1", ""}

\* hex texts without '=': digests of the payloads under some key
HexTexts == {Hmac(k, p) : k \in {PaddleWebhookSecret, "attacker_secret"}, p \in Payloads}

SignatureTexts ==
  {<<>>} \cup {<<s>> : s \in HexTexts} \cup {<<tag, s>> : tag \in Tags, s \in HexTexts}

Timestamps == {0, 300, 301, 600, 902}

Tolerances == {ToleranceSeconds, 0, 1}

ClockSteps == {1, 300}

UtilStep(call) ==
  /\ util' = call
  /\ UNCHANGED <<now, ticks, deliveries, logger, EVENTS, METRICS, req, last, hist,
                 SESSIONS, api, paypal, lapsed>>

\* await verifyHmacSignature(payload, signature, secret)
HmacCall(payload, signature, secret) ==
  LET r == verifyHmacSignatureCall(payload, signature, secret)
  IN UtilStep([IdleUtil EXCEPT !.fn = "verifyHmacSignature", !.payload = payload,
                               !.signature = signature, !.secret = secret,
                               !.threw = r.threw, !.value = r.value])

\* isTimestampValid(timestamp, toleranceSeconds)
TimestampCall(timestamp, toleranceSeconds) ==
  UtilStep([IdleUtil EXCEPT !.fn = "isTimestampValid", !.timestamp = timestamp,
                            !.toleranceSeconds = toleranceSeconds,
                            !.value = isTimestampValidWithin(timestamp, toleranceSeconds, now)])

ClockStep(step) ==
  /\ ticks < MaxElapses
  /\ ticks' = ticks + 1
  /\ now' = now + step
  /\ util' = IdleUtil
  /\ UNCHANGED <<deliveries, logger, EVENTS, METRICS, req, last, hist, SESSIONS, api,
                 paypal, lapsed>>

UtilNext ==
  \/ \E payload \in Payloads, signature \in SignatureTexts, secret \in Secrets :
       HmacCall(payload, signature, secret)
  \/ \E timestamp \in Timestamps, toleranceSeconds \in Tolerances :
       TimestampCall(timestamp, toleranceSeconds)
  \/ \E step \in ClockSteps : ClockStep(step)

UtilSpec == Init /\ [][UtilNext]_vars

(***************************************************************************)
(* Properties of the webhook pipeline.                                     *)
(***************************************************************************)
\* no request for the ledger key k is under way
Quiet(k) == \A s \in Slots : InFlight(req[s]) => KeyOf(req[s]) # k

\* the signature classes of a delivery that must be turned away
BadSignatures == {"missing", "malformed", "mismatch"}

\* the counter a processed webhook increments is live in the metrics store
WebhookCounterLive(r) ==
  /\ KvHas(METRICS, WebhookCounterKey(r.provider, r.eventType, now), now)
  /\ KvGet(METRICS, WebhookCounterKey(r.provider, r.eventType, now)) >= 1

\* C1: for every (processor, eventId), when the same verified webhook is
\* delivered two or more times, each delivery received after the one before
\* ended, with the stores answering, the worker running every request to its
\* end and the marker not expired in between, the backend notify endpoint is
\* called exactly once and every delivery is answered with HTTP 200.
C1_SequentialDeliveriesForwardOnce ==
  \A k \in HistKeys :
    (/\ hist[k].started >= 2
     /\ ~hist[k].void /\ ~hist[k].overlap /\ ~hist[k].crashed
     /\ Quiet(k))
    => (hist[k].fwd = 1 /\ hist[k].ok = hist[k].started)

C1_TwoDeliveriesOneForward ==
  \E k \in HistKeys :
    /\ hist[k].started = 2 /\ hist[k].ok = 2 /\ hist[k].fwd = 1
    /\ ~hist[k].void /\ ~hist[k].overlap /\ ~hist[k].crashed
    /\ Quiet(k)
    /\ last.pc = "done" /\ KeyOf(last) = k /\ last.evReads = 1

\* the step just taken turned a delivery away whose signature header is
\* missing, malformed or does not match
RejectedNow == last'.pc = "done" /\ last'.sig \in BadSignatures

RejectedUntouched ==
  /\ last'.status = WebhookErrorStatus
  /\ ~last'.verified
  /\ last'.evReads = 0 /\ last'.evWrites = 0 /\ last'.forwards = 0
  /\ last'.counterReads = 0 /\ last'.counterWrites = 0
  /\ UNCHANGED <<EVENTS, hist>>

\* C2 (as amended): a webhook whose signature header is missing, malformed
\* or does not match is answered with HTTP 400 without any read or write of
\* the event store, any backend forward or any increment of a webhook
\* counter; the only key of the metrics store the request may change is the
\* error counter error:unknown:{date}, which the worker's logger increments
\* for the error it logs.
C2_RejectedChangesOnlyErrorCounter ==
  [][RejectedNow =>
       /\ RejectedUntouched
       /\ \A key \in DOMAIN METRICS' :
            \/ key = ErrorCounterKey(now)
            \/ key \in DOMAIN METRICS /\ METRICS'[key] = METRICS[key]]_vars

C2_RejectedAndCounted ==
  /\ last.pc = "done" /\ last.sig = "mismatch" /\ last.provider = "paddle"
  /\ last.status = WebhookErrorStatus
  /\ last.errorIncrements = 1
  /\ KvHas(METRICS, ErrorCounterKey(now), now)

\* C2 as stated: a webhook whose signature header is missing, malformed or
\* does not match is answered with HTTP 400 with no read or write of the
\* event store, no backend forward and no metric increment at all.
C2_RejectedIncrementsNoMetric ==
  [][RejectedNow => (RejectedUntouched /\ UNCHANGED METRICS)]_vars

\* C3 as stated: for a given (processor, eventId), in any interleaving of any
\* number of deliveries, at most one delivery is forwarded to the backend
\* while the marker has not expired, and a delivery that finds the marker is
\* acknowledged without a forward.
C3_AtMostOneForward ==
  /\ \A k \in HistKeys : ~hist[k].void => hist[k].fwd <= 1
  /\ (last.pc = "done" /\ last.alreadyProcessed)
       => (last.status = HttpOk /\ last.forwards = 0)

\* C4: a delivery that passed the idempotency check and then wrote its marker
\* over the marker another delivery of the same event wrote in between (check
\* and marker write being two store operations) goes on exactly as if it were
\* the first: it forwards to the backend and, the metrics store answering,
\* returns success.
C4_RacedDeliveryForwards ==
  (last.pc = "done" /\ last.raced /\ last.marked)
    => /\ ~last.alreadyProcessed
       /\ last.evReads = 1 /\ last.evWrites = 1
       /\ last.forwards = 1
       /\ last.fault = None => (last.status = HttpOk /\ last.received)

C4_BothForwardBothSucceed ==
  /\ last.pc = "done" /\ last.raced /\ last.marked
  /\ last.status = HttpOk
  /\ hist[KeyOf(last)].started = 2
  /\ hist[KeyOf(last)].fwd = 2
  /\ hist[KeyOf(last)].ok = 2

\* C5: the steps of a webhook request run in the order verify, idempotency
\* check, marker write, forward: a request that is at or past the forward
\* was verified, read the ledger and wrote its marker successfully; a
\* request whose marker write failed makes no forward and is answered with
\* HTTP 400.
C5_ForwardOnlyAfterMark ==
  /\ \A s \in Slots :
       /\ InFlight(req[s]) => req[s].verified
       /\ req[s].pc \in {"mark", "forward", "metric_get", "metric_put"}
            => (req[s].evReads = 1 /\ ~req[s].alreadyProcessed)
       /\ req[s].pc \in {"forward", "metric_get", "metric_put"}
            => (req[s].marked /\ req[s].evWrites = 1)
       /\ req[s].forwards > 0 => req[s].marked
  /\ last.forwards > 0
       => (last.verified /\ last.evReads = 1 /\ last.evWrites = 1 /\ last.marked)
  /\ last.fault = "ledger_write"
       => (~last.marked /\ last.forwards = 0 /\ last.status = WebhookErrorStatus)

C5_MarkFailedNothingForwarded ==
  /\ last.pc = "done" /\ last.fault = "ledger_write"
  /\ last.evWrites = 1 /\ last.forwards = 0
  /\ last.status = WebhookErrorStatus

\* C6: a verified, not yet processed webhook whose backend forward answers
\* non-2xx or fails with a network error goes on as one whose forward
\* succeeded: its marker stays written and, the metrics store answering, its
\* webhook counter is incremented and the response is the success response
\* (HTTP 200, received: true); the forward's failure is never the reason of
\* an error response.
C6_ForwardFailureSwallowed ==
  (last.pc = "done" /\ last.fwdResult \in {"non2xx", "neterr"})
    => /\ last.marked
       /\ isEventProcessed(EVENTS, last.provider, last.eventId, now)
       /\ last.fault \in {None, "metric_read", "metric_write"}
       /\ last.fault = None
            => /\ last.status = HttpOk /\ last.received
               /\ last.message = "Webhook processed successfully"
               /\ last.counterWrites = 1
               /\ WebhookCounterLive(last)

C6_FailedForwardAnswered200 ==
  /\ last.pc = "done" /\ last.fwdResult = "neterr"
  /\ last.status = HttpOk /\ last.received
  /\ last.counterWrites = 1
  /\ WebhookCounterLive(last)
  /\ isEventProcessed(EVENTS, last.provider, last.eventId, now)

\* C7: once the marker of (processor, eventId) was written and the forward
\* failed or the worker was terminated before it, the redeliveries of the
\* event (each received after the delivery before it ended, the marker not
\* expired, the stores answering) are all acknowledged with success and none
\* is forwarded: the backend receives the event zero times.
C7_DroppedEventStaysDropped ==
  \A k \in HistKeys :
    (hist[k].dropped /\ ~hist[k].void /\ ~hist[k].overlap)
      => /\ hist[k].got = 0
         /\ hist[k].fwd <= 1
         /\ hist[k].crashed => hist[k].fwd = 0
         /\ Quiet(k) => hist[k].ok + (IF hist[k].crashed THEN 1 ELSE 0) = hist[k].started

C7_CrashedThenAcknowledged ==
  \E k \in HistKeys :
    /\ hist[k].crashed /\ hist[k].dropped /\ ~hist[k].void /\ ~hist[k].overlap
    /\ hist[k].started = 2 /\ hist[k].ok = 1
    /\ hist[k].fwd = 0 /\ hist[k].got = 0
    /\ last.pc = "done" /\ KeyOf(last) = k /\ last.alreadyProcessed

\* C8: a webhook request that finds a marker for its (processor, eventId)
\* ends in the success response (HTTP 200, no error logged) and changes
\* nothing: no backend forward, no read or write of a metric counter, no
\* write of the marker; the event store and the metrics store are as before.
C8_AlreadyProcessedChangesNothing ==
  [][(last'.pc = "done" /\ last'.alreadyProcessed) =>
       /\ last'.status = HttpOk /\ last'.received
       /\ last'.message = "Event already processed"
       /\ last'.fault = None /\ last'.errorLogs = 0
       /\ last'.forwards = 0 /\ last'.evWrites = 0
       /\ last'.counterReads = 0 /\ last'.counterWrites = 0
       /\ UNCHANGED <<EVENTS, METRICS>>
       /\ \A k \in HistKeys : hist'[k].fwd = hist[k].fwd]_vars

C8_MarkerFoundAnswered200 ==
  /\ last.pc = "done" /\ last.alreadyProcessed
  /\ last.status = HttpOk /\ last.forwards = 0
  /\ isEventProcessed(EVENTS, last.provider, last.eventId, now)
  /\ WebhookCounterLive(last)

\* C9 as stated: every completed webhook request is answered with HTTP 200 or
\* HTTP 400, and a verified request that met no failure of the ledger is
\* answered with HTTP 200 whatever the backend and the metrics store did.
C9_DefinitiveAndOutageProof ==
  last.pc = "done"
    => /\ last.status \in {HttpOk, WebhookErrorStatus}
       /\ (last.verified /\ last.fault \notin {"ledger_read", "ledger_write"})
            => last.status = HttpOk

\* C10 as stated (webhook half): a webhook that was verified, marked and
\* forwarded is answered with success also when the read or the write of its
\* counter fails.
C10_CounterFailureKeepsSuccess ==
  (last.pc = "done" /\ last.verified /\ last.marked /\ last.forwards = 1
     /\ last.fwdResult = "ok")
    => last.status = HttpOk

(***************************************************************************)
(* Properties of the JSON API.                                             *)
(***************************************************************************)
\* the call completed in the step just taken did nothing but answer
NothingDone(call) ==
  /\ call.adapter = None /\ call.adapterCalls = 0 /\ call.processorCalls = <<>>
  /\ call.sessionWrites = 0 /\ call.stored = Undefined
  /\ call.counterReads = 0 /\ call.counterWrites = 0

\* C11: a checkout request in which provider, userId, email, amount or
\* productName is absent is answered with HTTP 400 'Missing required fields'
\* before anything else happens: no adapter is resolved, no request goes to a
\* processor, the session store and the metrics store are left as they were.
C11_IncompleteCheckoutRejectedFirst ==
  [][(/\ api'.op = "checkout"
      /\ \E f \in RequiredCheckoutFields : api'.input[1][f] = Undefined)
     => /\ api'.status = BadRequestStatus
        /\ ~api'.success
        /\ api'.error = "Missing required fields"
        /\ NothingDone(api')
        /\ api'.sessionReads = 0
        /\ api'.errorLogs = 0
        /\ UNCHANGED <<SESSIONS, METRICS>>]_vars

C11_CheckoutWithoutAmountRejected ==
  /\ api.op = "checkout"
  /\ api.input[1].amount = Undefined
  /\ api.input[1].provider = <<"paddle">>
  /\ api.status = BadRequestStatus
  /\ api.processorCalls = <<>>

\* what a checkout was made for: the currency is the one the processor was
\* asked to charge in
Terms(amount, currency, productName) ==
  [amount |-> amount, currency |-> currency, productName |-> productName]

CheckoutTerms(body) ==
  Terms(body.amount, OrElse(body.currency, "USD"), body.productName)

SessionTerms(session) ==
  Terms(session.amount, session.currency, session.productName)

\* C12: a checkout with all required fields and a successful processor
\* response leaves a live session under session:{processor-issued id} whose
\* amount, currency and product label are those of the checkout, and a
\* receipt lookup that succeeds returns the session stored under the id it
\* was asked for, so with the terms of the checkout that wrote it.
C12_ReceiptMatchesCheckout ==
  [][/\ (api'.op = "checkout" /\ api'.status = HttpOk)
          => /\ api'.stored = <<api'.data[1].sessionId>>
             /\ KvHas(SESSIONS', SessionKey(api'.data[1].sessionId), now)
             /\ SessionTerms(KvGet(SESSIONS', SessionKey(api'.data[1].sessionId)))
                  = CheckoutTerms(api'.input[1])
     /\ (api'.op = "receipt" /\ api'.status = HttpOk
         /\ api'.input[1] \in {PaddleSessionId, PayPalOrderId})
          => /\ KvHas(SESSIONS, SessionKey(api'.input[1]), now)
             /\ api'.data[1].session = KvGet(SESSIONS, SessionKey(api'.input[1]))
             /\ \E body \in CheckoutBodies :
                  SessionTerms(api'.data[1].session) = CheckoutTerms(body)]_vars

\* C13: a checkout that omits the currency is made in USD: the processor is
\* asked for USD and the session persisted for it records USD.
C13_OmittedCurrencyIsUsdEverywhere ==
  [][(/\ api'.op = "checkout"
      /\ api'.status = HttpOk
      /\ api'.input[1].currency = Undefined)
     => /\ api'.processorCalls[Len(api'.processorCalls)].arg = <<"USD">>
        /\ KvGet(SESSIONS', SessionKey(api'.data[1].sessionId)).currency = <<"USD">>]_vars

\* the processor did not create the checkout: it answered with an error, the
\* token request failed, or the adapter has no implementation to ask it with
CheckoutFailedAtProcessor(call) ==
  /\ call.op = "checkout"
  /\ call.adapterCalls = 1
  /\ (call.remote # "ok" \/ call.adapterError # None)

CheckoutFailureAnswered ==
  /\ api'.status = ServerErrorStatus
  /\ ~api'.success
  /\ api'.error = api'.adapterError
  /\ api'.error # None
  /\ api'.sessionWrites = 0 /\ api'.stored = Undefined
  /\ api'.counterReads = 0 /\ api'.counterWrites = 0
  /\ UNCHANGED SESSIONS

\* the step changed no key of the metrics store but the logger's error counter
OnlyErrorCounterChanged ==
  \A key \in DOMAIN METRICS' :
    \/ key = ErrorCounterKey(now)
    \/ key \in DOMAIN METRICS /\ METRICS'[key] = METRICS[key]

\* C14 (as amended): a checkout writes its session record only after the
\* adapter's createCheckoutSession succeeded.  When the processor call fails
\* the request is answered with HTTP 500 carrying the processor error text,
\* no session record is written and no checkout counter is incremented; the
\* only key of the metrics store the request may change is the error counter
\* error:unknown:{date}, which the worker's logger increments for each error
\* it logs.
C14_FailedCheckoutPersistsNothing ==
  [][/\ (api'.op = "checkout" /\ api'.sessionWrites > 0)
          => (api'.adapterCalls = 1 /\ api'.remote = "ok" /\ api'.adapterError = None)
     /\ CheckoutFailedAtProcessor(api')
          => (CheckoutFailureAnswered /\ OnlyErrorCounterChanged)]_vars

C14_ProcessorErrorCounted ==
  /\ CheckoutFailedAtProcessor(api)
  /\ api.adapter = "paddle"
  /\ api.remote = "error"
  /\ api.status = ServerErrorStatus
  /\ api.error = "Paddle API error"
  /\ api.errorIncrements = 2
  /\ KvHas(METRICS, ErrorCounterKey(now), now)

\* C14 as stated: a session record is written only after the adapter's
\* createCheckoutSession succeeded; when the processor call fails the request
\* returns HTTP 500 carrying the processor error text, and no session record
\* and no metric is written.
C14_FailedCheckoutWritesNoMetric ==
  [][/\ (api'.op = "checkout" /\ api'.sessionWrites > 0)
          => (api'.adapterCalls = 1 /\ api'.remote = "ok" /\ api'.adapterError = None)
     /\ CheckoutFailedAtProcessor(api')
          => (CheckoutFailureAnswered /\ UNCHANGED METRICS)]_vars

\* the spellings the factory knows each adapter by, among the names used
Spellings ==
  [paddle |-> {"paddle", "Paddle", "PADDLE"},
   paypal |-> {"paypal", "PayPal", "PAYPAL"},
   stripe |-> {"stripe", "Stripe", "STRIPE"}]

UnsupportedName(name) == \A a \in DOMAIN Spellings : name \notin Spellings[a]

\* a checkout or subscription request that passes validation and names a
\* processor there is no adapter for
UnsupportedCall(call) ==
  /\ call.op \in {"checkout", "subscribe"}
  /\ call.status # BadRequestStatus
  /\ UnsupportedName(call.input[1].provider[1])

UnsupportedCallAnswered ==
  /\ api'.status = ServerErrorStatus
  /\ ~api'.success
  /\ api'.error = "Unsupported payment provider"
  /\ NothingDone(api')
  /\ api'.sessionReads = 0
  /\ UNCHANGED <<SESSIONS, EVENTS>>

UnsupportedWebhook(r) == r.pc = "done" /\ UnsupportedName(r.provider)

UnsupportedWebhookAnswered ==
  /\ last'.status = WebhookErrorStatus
  /\ last'.message = "Unsupported payment provider"
  /\ ~last'.verified
  /\ last'.processorRequests = 0
  /\ last'.evReads = 0 /\ last'.evWrites = 0 /\ last'.forwards = 0
  /\ last'.counterReads = 0 /\ last'.counterWrites = 0
  /\ UNCHANGED <<SESSIONS, EVENTS, hist>>

\* C15 (as amended): an unsupported processor name on checkout, subscription
\* creation or webhook is answered with the error 'Unsupported payment
\* provider', HTTP 500 on checkout and subscription creation and HTTP 400 on
\* webhook, with no processor call, no write to the session store or the
\* event store, no counter of checkouts or webhooks incremented and no
\* backend forward; the only key of the metrics store the request may change
\* is the error counter error:unknown:{date}, which the worker's logger
\* increments for the error it logs.
C15_UnsupportedProviderTouchesNothingElse ==
  [][/\ UnsupportedCall(api') => (UnsupportedCallAnswered /\ OnlyErrorCounterChanged)
     /\ UnsupportedWebhook(last') => (UnsupportedWebhookAnswered /\ OnlyErrorCounterChanged)]_vars

C15_UnsupportedSubscriptionCounted ==
  /\ api.op = "subscribe"
  /\ api.input[1].provider = <<"unknown">>
  /\ api.status = ServerErrorStatus
  /\ api.error = "Unsupported payment provider"
  /\ api.errorIncrements = 1
  /\ KvHas(METRICS, ErrorCounterKey(now), now)

\* C15 as stated: an unsupported processor name on any entry point yields
\* the unsupported-provider error, HTTP 500 on checkout and subscription
\* creation, HTTP 400 on webhook, in every case with no processor call, no
\* store write and no backend forward.
C15_UnsupportedProviderWritesNothing ==
  [][/\ UnsupportedCall(api') => (UnsupportedCallAnswered /\ UNCHANGED METRICS)
     /\ UnsupportedWebhook(last') => (UnsupportedWebhookAnswered /\ UNCHANGED METRICS)]_vars

\* C16: adapter resolution depends on nothing but the name and ignores its
\* case: a request naming a processor in any spelling whose lowercase form is
\* paddle, paypal or stripe is served by the adapter whose getName() is that
\* lowercase form, and a request naming anything else fails with the
\* unsupported-provider error and is served by no adapter.
C16_ResolutionIgnoresCase ==
  (api.op \in {"checkout", "subscribe"} /\ api.status # BadRequestStatus)
    => LET name == api.input[1].provider[1]
       IN /\ \A a \in DOMAIN Spellings :
               name \in Spellings[a] => (api.adapter = a /\ api.adapterCalls = 1)
          /\ UnsupportedName(name)
               => /\ api.adapter = None /\ api.adapterCalls = 0
                  /\ api.error = "Unsupported payment provider"

C16_UpperCaseNameResolved ==
  /\ api.op = "checkout"
  /\ api.input[1].provider = <<"PAYPAL">>
  /\ api.adapter = "paypal"
  /\ api.status = HttpOk

(***************************************************************************)
(* Properties of webhook verification.                                     *)
(***************************************************************************)
\* a Paddle delivery whose signature timestamp is outside the tolerance
StaleDelivery(r) ==
  /\ toLowerCase(r.provider) = "paddle"
  /\ r.timestamp # Undefined
  /\ ~isTimestampValid(r.timestamp[1], now)

\* C17 as stated: a webhook whose embedded signature timestamp differs from
\* the current time by more than the tolerance (300 seconds) is rejected
\* whether or not its signature matches: it is answered with HTTP 400, writes
\* no marker and is not forwarded, and is never taken into the pipeline.
C17_StaleTimestampRejected ==
  /\ (last.pc = "done" /\ StaleDelivery(last))
       => /\ last.status = WebhookErrorStatus
          /\ ~last.verified /\ ~last.marked
          /\ last.evWrites = 0 /\ last.forwards = 0
  /\ \A s \in Slots : InFlight(req[s]) => ~StaleDelivery(req[s])

\* C18: a PayPal webhook goes into the pipeline only when the token request
\* and the verification request were answered OK and verification_status is
\* SUCCESS; with any other verification status, a failed verification call
\* or a failed token request it is answered with HTTP 400 and neither reads
\* nor writes a marker nor is forwarded.
C18_PayPalAcceptedOnlyOnSuccess ==
  /\ \A s \in Slots :
       (InFlight(req[s]) /\ req[s].provider = "paypal") => req[s].sig = "valid"
  /\ (last.pc \in {"done", "crashed"} /\ last.provider = "paypal")
       => /\ (last.verified \/ last.marked \/ last.forwards > 0 \/ last.evWrites > 0)
               => last.sig = "valid"
          /\ last.sig \in {"unverifiable", "mismatch"}
               => /\ last.status = WebhookErrorStatus
                  /\ ~last.verified /\ ~last.marked
                  /\ last.evReads = 0 /\ last.evWrites = 0 /\ last.forwards = 0
                  /\ last.message \in {"Failed to get PayPal access token",
                                       "PayPal webhook verification failed",
                                       "Invalid PayPal webhook signature"}

C18_FailureStatusRejected ==
  /\ last.pc = "done"
  /\ last.provider = "paypal"
  /\ last.sig = "mismatch"
  /\ last.processorRequests = 2
  /\ last.message = "Invalid PayPal webhook signature"
  /\ last.status = WebhookErrorStatus

(***************************************************************************)
(* Properties of receipt lookup and cancellation.                          *)
(***************************************************************************)
\* the record the session store holds for the id the call was made with
Found(call) == KvHas(SESSIONS, SessionKey(call.input[1]), now)

Record(call) == KvGet(SESSIONS, SessionKey(call.input[1]))

\* the session store answered the call's lookup
LookedUp(call) == call.sessionReads = 1 /\ call.error # "KV GET failed"

ProcessorFailed(call) ==
  call.adapterCalls = 1 /\ (call.remote # "ok" \/ call.adapterError # None)

ProcessorAnswered(call) ==
  call.adapterCalls = 1 /\ call.remote = "ok" /\ call.adapterError = None

\* C19: a receipt lookup for a session id with no stored record is answered
\* with HTTP 404 without an adapter being resolved or a processor called;
\* with a stored record and a failing processor call it is answered with
\* HTTP 500 carrying the processor error; with a stored record and the
\* processor answering it is answered with HTTP 200 carrying the stored
\* session together with the processor's detail of that id.
C19_ReceiptMissingRecordIsNotProcessorFailure ==
  [][(api'.op = "receipt" /\ LookedUp(api'))
     => /\ ~Found(api')
             => /\ api'.status = NotFoundStatus
                /\ api'.error = "Session not found"
                /\ NothingDone(api')
        /\ Found(api')
             => /\ api'.adapter = toLowerCase(Record(api').provider[1])
                /\ ProcessorFailed(api') \/ ProcessorAnswered(api')
        /\ (Found(api') /\ ProcessorFailed(api'))
             => /\ api'.status = ServerErrorStatus
                /\ api'.error = api'.adapterError
                /\ api'.data = Undefined
        /\ (Found(api') /\ ProcessorAnswered(api'))
             => /\ api'.status = HttpOk
                /\ api'.success
                /\ api'.data[1].session = Record(api')
                /\ api'.data[1].providerDetails
                     = [id |-> api'.input[1], from |-> api'.adapter]
        /\ UNCHANGED SESSIONS]_vars

C19_ReceiptProcessorFailure ==
  /\ api.op = "receipt"
  /\ api.input = <<PayPalOrderId>>
  /\ Found(api)
  /\ api.remote = "token_error"
  /\ api.status = ServerErrorStatus
  /\ api.error = "Failed to get PayPal access token"

\* C20: cancelling a subscription id with no stored record is answered with
\* HTTP 404 and no processor is called; with a stored record the adapter
\* named by the record's provider, and no other, is asked to cancel that id,
\* once, and every request made goes to that adapter's processor.
C20_CancellationRoutedByRecord ==
  [][(api'.op = "cancel" /\ LookedUp(api'))
     => /\ ~Found(api')
             => /\ api'.status = NotFoundStatus
                /\ api'.error = "Subscription not found"
                /\ NothingDone(api')
        /\ Found(api')
             => /\ \E a \in DOMAIN Spellings :
                     Record(api').provider[1] \in Spellings[a] /\ api'.adapter = a
                /\ api'.adapterCalls = 1
                /\ \A i \in 1..Len(api'.processorCalls) :
                     api'.processorCalls[i].to = api'.adapter
                /\ Cardinality({i \in 1..Len(api'.processorCalls) :
                                  api'.processorCalls[i].arg = <<api'.input[1]>>})
                     = IF api'.remote = "token_error" /\ api'.adapter = "paypal" THEN 0 ELSE 1
        /\ UNCHANGED SESSIONS]_vars

C20_CancelledAtRecordedProcessor ==
  /\ api.op = "cancel"
  /\ api.input = <<PaddleSubscriptionId>>
  /\ Found(api)
  /\ Record(api).provider = <<"PADDLE">>
  /\ api.adapter = "paddle"
  /\ api.adapterCalls = 1
  /\ api.status = HttpOk

(***************************************************************************)
(* Properties of subscription creation.                                    *)
(***************************************************************************)
\* the request lacks provider, userId or email, or both planId and priceId
SubscriptionIncomplete(body) ==
  \/ \E f \in {"provider", "userId", "email"} : body[f] \in {Undefined, <<"">>}
  \/ (body.planId \in {Undefined, <<"">>} /\ body.priceId \in {Undefined, <<"">>})

StripeErrors ==
  {"Stripe adapter not yet implemented. Coming soon!",
   "Stripe subscription creation not yet implemented. Coming soon!"}

\* C22: the stripe adapter fails every operation with an error and does
\* nothing in silence: a checkout or a subscription creation naming stripe
\* is answered with a failure carrying the adapter's error, calls no
\* processor and leaves the session store as it was, and a stripe webhook is
\* answered with HTTP 400, is never taken into the pipeline, writes no
\* marker and is not forwarded.
C22_StripeFailsEveryOperation ==
  [][/\ (/\ api'.op \in {"checkout", "subscribe"}
         /\ api'.status # BadRequestStatus
         /\ api'.input[1].provider[1] \in Spellings.stripe)
          => /\ ~api'.success
             /\ api'.status = ServerErrorStatus
             /\ api'.error \in StripeErrors
             /\ api'.data = Undefined
             /\ api'.adapter = "stripe"
             /\ api'.processorCalls = <<>>
             /\ api'.sessionWrites = 0 /\ api'.stored = Undefined
             /\ api'.counterWrites = 0
             /\ UNCHANGED SESSIONS
     /\ (last'.pc = "done" /\ last'.provider \in Spellings.stripe)
          => /\ last'.status = WebhookErrorStatus
             /\ last'.message = "Stripe webhook verification not yet implemented. Coming soon!"
             /\ ~last'.verified /\ ~last'.marked
             /\ last'.evReads = 0 /\ last'.evWrites = 0 /\ last'.forwards = 0
             /\ UNCHANGED <<EVENTS, hist>>
     /\ \A s \in Slots : InFlight(req'[s]) => req'[s].provider \notin Spellings.stripe]_vars

C22_StripeCheckoutFailed ==
  /\ api.op = "checkout"
  /\ api.input[1].provider = <<"STRIPE">>
  /\ api.adapter = "stripe"
  /\ api.status = ServerErrorStatus
  /\ api.error = "Stripe adapter not yet implemented. Coming soon!"

(***************************************************************************)
(* Properties of the PayPal token cache.                                   *)
(***************************************************************************)
\* the adapter holds a token and it arrived less than its declared lifetime
\* minus 300 seconds ago
InTokenWindow ==
  /\ paypal.accessToken # Undefined
  /\ now < paypal.fetchedAt + (paypal.expiresIn - 300)

\* C23: getAccessToken returns the cached token, making no token request,
\* only while the clock is before the time the token arrived plus its
\* declared lifetime minus 300 seconds, and requests a new token otherwise;
\* so a call within that window makes no second request and no token is
\* handed out from the cache past its lifetime minus the margin.
C23_TokenCachedWithinWindowOnly ==
  [][/\ paypal'.result.kind = "cached"
          => /\ InTokenWindow
             /\ paypal'.result.token = paypal.accessToken
             /\ paypal'.requested = paypal.requested
             /\ paypal'.pending = paypal.pending
     /\ paypal'.result.kind = "requested"
          => /\ ~InTokenWindow
             /\ paypal'.requested = paypal.requested + 1]_vars

C23_CachedJustBeforeExpiry ==
  /\ paypal.result.kind = "cached"
  /\ paypal.expiresIn = 3600
  /\ now = paypal.fetchedAt + 3299
  /\ paypal.requested = 1

(***************************************************************************)
(* Properties of waiting.                                                  *)
(***************************************************************************)
\* C24 as stated: no operation waits indefinitely: a request that is waiting
\* for the backend to answer its forward stops waiting, the stalled call
\* resolving to an error after a bounded timeout, and goes on to its
\* response.
C24_ForwardWaitEnds ==
  \A s \in Slots : (req[s].pc = "forward") ~> (req[s].pc # "forward")

(***************************************************************************)
(* Properties of the ledger over time.                                     *)
(***************************************************************************)
\* the step just taken was the answer to the store operation or the forward
\* that the request of slot s was waiting for at pc
Answered(s, pc) == req[s].pc = pc /\ req'[s] # req[s]

\* the marker of the request of slot s is in the event store and has not
\* expired
MarkerLive(s) ==
  /\ <<"evt", req[s].provider, req[s].eventId>> \in DOMAIN EVENTS
  /\ now < EVENTS[<<"evt", req[s].provider, req[s].eventId>>].exp

\* C25: replay protection lasts as long as the marker: a delivery whose
\* check finds the marker of its (processor, eventId) live is acknowledged
\* and is not forwarded; one whose check finds no live marker, be it that
\* none was written or that the one written expired 7 days after, is treated
\* as new: it writes a marker that lives 7 days from now and is then
\* forwarded to the backend.
C25_ReplayProtectionLastsAsTheMarker ==
  [][\A s \in Slots :
       /\ (Answered(s, "check") /\ last'.fault # "ledger_read")
            => IF MarkerLive(s)
               THEN /\ req'[s] = IdleRequest
                    /\ last'.status = HttpOk
                    /\ last'.message = "Event already processed"
                    /\ last'.evWrites = 0 /\ last'.forwards = 0
                    /\ UNCHANGED EVENTS
               ELSE req'[s].pc = "mark" /\ ~req'[s].alreadyProcessed
       /\ (Answered(s, "mark") /\ last'.fault # "ledger_write")
            => /\ req'[s].pc = "forward"
               /\ <<"evt", req[s].provider, req[s].eventId>> \in DOMAIN EVENTS'
               /\ EVENTS'[<<"evt", req[s].provider, req[s].eventId>>].exp = now + 7 * 86400
       /\ (Answered(s, "forward") /\ last'.pc # "crashed")
            => /\ req'[s].pc = "metric_get"
               /\ req'[s].forwards = req[s].forwards + 1]_vars

C25_ReplayAfterExpiryForwarded ==
  /\ last.pc = "done"
  /\ last.verified
  /\ hist[KeyOf(last)].expired
  /\ now = 7 * 86400
  /\ ~last.alreadyProcessed
  /\ last.marked
  /\ last.forwards = 1
  /\ KvHas(EVENTS, EvtKey(last.provider, last.eventId), now)

\* the id a receipt or cancellation asks for has no live record
NoLiveRecord(call) == ~KvHas(SESSIONS, SessionKey(call.input[1]), now)

\* C26: a checkout session is written to expire 3600 seconds later and a
\* subscription record 30 * 86400 seconds later; a record stays in the store
\* while its TTL has not elapsed and is gone once it has; a receipt lookup or
\* a cancellation for an id with no live record, the store answering, is
\* answered with HTTP 404, calls no processor and writes nothing.
C26_RecordsExpireAfterTtl ==
  [][/\ (api'.op = "checkout" /\ api'.stored # Undefined)
          => SESSIONS'[SessionKey(api'.stored[1])].exp = now + 3600
     /\ (api'.op = "subscribe" /\ api'.stored # Undefined)
          => SESSIONS'[SessionKey(api'.stored[1])].exp = now + 30 * 86400
     /\ \A k \in DOMAIN SESSIONS : now' < SESSIONS[k].exp => k \in DOMAIN SESSIONS'
     /\ \A k \in DOMAIN SESSIONS' : now' < SESSIONS'[k].exp
     /\ (/\ api'.op \in {"receipt", "cancel"}
         /\ api'.error # "KV GET failed"
         /\ NoLiveRecord(api'))
          => /\ api'.status = NotFoundStatus
             /\ NothingDone(api')
             /\ UNCHANGED SESSIONS]_vars

C26_CancelAfterExpiryNotFound ==
  /\ api.op = "cancel"
  /\ api.input = <<PayPalSubscriptionId>>
  /\ SessionKey(PayPalSubscriptionId) \in lapsed
  /\ now = SubscriptionTtl
  /\ api.status = NotFoundStatus
  /\ api.processorCalls = <<>>

\* the step just taken stored the record of a creation under key k: the
\* processor issued the id of k to a checkout or a subscription
IssuedTo(call, k) ==
  /\ call.op \in {"checkout", "subscribe"}
  /\ call.stored # Undefined
  /\ k = SessionKey(call.stored[1])

\* C27: whatever request or clock step is taken, a record in the session
\* store is still there while its TTL has not elapsed, and it is there with
\* the value and expiry it was written with unless the step is a creation to
\* which the processor issued that record's id; a receipt lookup, a
\* cancellation and a webhook delivery leave the session store as it was.
C27_RecordsImmutableUntilExpiry ==
  [][/\ \A k \in DOMAIN SESSIONS :
          /\ now' < SESSIONS[k].exp => k \in DOMAIN SESSIONS'
          /\ (k \in DOMAIN SESSIONS' /\ ~IssuedTo(api', k)) => SESSIONS'[k] = SESSIONS[k]
     /\ api'.op \in {"receipt", "cancel"} => UNCHANGED SESSIONS
     /\ last'.status # 0 => UNCHANGED SESSIONS]_vars

C27_RecordKeptByCancellation ==
  /\ api.op = "cancel"
  /\ api.input = <<PaddleSubscriptionId>>
  /\ api.success
  /\ api.sessionWrites = 0
  /\ SessionKey(PaddleSubscriptionId) \in DOMAIN SESSIONS
  /\ SESSIONS[SessionKey(PaddleSubscriptionId)].value.type = <<"subscription">>
  /\ SESSIONS[SessionKey(PaddleSubscriptionId)].exp = SubscriptionTtl

\* C28: a cancellation answered with success carries the data
\* {status: 'cancelled', subscriptionId} with the subscription id that was
\* asked for, whichever processor cancelled it.
C28_CancellationDataIsUniform ==
  [][(api'.op = "cancel" /\ api'.success)
       => api'.data = <<[status |-> "cancelled", subscriptionId |-> api'.input[1]]>>]_vars

\* C29: of the sequential deliveries of one validly signed event on path
\* segments that differ only in letter case, at most one is forwarded to the
\* backend, and the ledger holds one marker for them.
C29_CaseVariantsShareOneMarker ==
  \A e \in EventIds :
    /\ hist[<<"paddle", e>>].fwd + hist[<<"PADDLE", e>>].fwd <= 1
    /\ ~(EvtKey("paddle", e) \in DOMAIN EVENTS /\ EvtKey("PADDLE", e) \in DOMAIN EVENTS)

\* C30: a pair (path segment, event id) whose verified webhook was delivered
\* once and ran to its end with the stores answering was forwarded to the
\* backend once and answered 200, whatever markers of other pairs the ledger
\* holds; and a delivery is answered 'already processed' only when an earlier
\* delivery of its own pair came before it.
C30_MarkerSuppressesOnlyItsOwnPair ==
  /\ \A k \in HistKeys :
       (/\ hist[k].started = 1
        /\ ~hist[k].void /\ ~hist[k].crashed
        /\ Quiet(k))
       => (hist[k].fwd = 1 /\ hist[k].ok = 1)
  /\ last.alreadyProcessed
       => (hist[KeyOf(last)].void \/ hist[KeyOf(last)].started >= 2)

C30_TwoPairsBothForwarded ==
  \E k1 \in HistKeys, k2 \in HistKeys :
    /\ k1 # k2
    /\ hist[k1].started = 1 /\ hist[k1].fwd = 1 /\ hist[k1].ok = 1
    /\ hist[k2].started = 1 /\ hist[k2].fwd = 1 /\ hist[k2].ok = 1
    /\ isEventProcessed(EVENTS, k1[1], k1[2], now)
    /\ isEventProcessed(EVENTS, k2[1], k2[2], now)
    /\ last.pc = "done" /\ KeyOf(last) = k2
    /\ last.evReads = 1 /\ ~last.alreadyProcessed /\ last.forwards = 1

\* C31: the value stored under a counter key never decreases while the key
\* lives, and every completed incrementCounter call leaves its counter one
\* above what it was (so that n completed calls on an absent key leave n),
\* however the reads and writes of concurrent calls interleave.
C31_CounterCountsEveryIncrement ==
  [][/\ \A k \in DOMAIN METRICS \cap DOMAIN METRICS' :
          METRICS'[k].value >= METRICS[k].value
     /\ \A s \in Slots :
          (/\ req[s].pc = "metric_put"
           /\ req'[s].pc = "idle"
           /\ last'.status = HttpOk)
          => counterRead(METRICS', req[s].mkey, now)
               = counterRead(METRICS, req[s].mkey, now) + 1]_vars

TokenRefusedOperations ==
  { createCheckoutSession("paypal", CheckoutBody("paypal", <<"EUR">>), "token_error"),
    adapterGetSession("paypal", PayPalOrderId, "token_error"),
    createSubscription("paypal", SubscriptionBody("paypal", <<"plan_1">>, Undefined),
                       "token_error"),
    cancelSubscription("paypal", PayPalSubscriptionId, "token_error") }

TokenRefusedVerifications ==
  { PayPalVerifyWebhook(w) :
      w \in {x \in PayPalRequests :
               /\ x.headers["paypal-transmission-id"] # None
               /\ x.headers["paypal-transmission-sig"] # None
               /\ x.remote.token # "ok"} }

\* C33: a token request that PayPal refuses leaves accessToken and
\* tokenExpiry of the adapter as they were and hands no token to the caller;
\* checkout, session lookup, subscription creation, cancellation and webhook
\* verification each fail on it having sent PayPal nothing but the token
\* request.
C33_RefusedTokenKeepsCacheAndFailsCaller ==
  [][/\ paypal'.result.kind = "failed"
          => /\ paypal'.accessToken = paypal.accessToken
             /\ paypal'.tokenExpiry = paypal.tokenExpiry
             /\ paypal'.result.token = Undefined
             /\ paypal'.requested = paypal.requested
     /\ \A r \in TokenRefusedOperations :
          ~r.ok /\ r.calls = <<PayPalToken>> /\ r.error = "Failed to get PayPal access token"
     /\ TokenRefusedVerifications # {}
     /\ \A v \in TokenRefusedVerifications :
          ~v.ok /\ v.tokenRequests = 1 /\ v.verifyRequests = 0]_vars

C33_StaleTokenKeptAfterRefusal ==
  /\ paypal.result.kind = "failed"
  /\ paypal.accessToken = <<"token_1">>
  /\ paypal.requested = 2
  /\ ~tokenCached(paypal, now)

\* PayPal deliveries that lack the transmission-id or the transmission-sig
\* header
HeaderlessPayPalRequests ==
  {w \in PayPalRequests :
     \/ w.headers["paypal-transmission-id"] = None
     \/ w.headers["paypal-transmission-sig"] = None}

\* C34: a PayPal webhook without the transmission-id or without the
\* transmission-sig header is turned away with HTTP 400 'Missing PayPal
\* webhook headers' having made no token request and no verification
\* request, whatever PayPal would have answered, and it touches neither the
\* ledger nor the backend.
C34_HeaderlessPayPalRejectedUnasked ==
  /\ \A w \in HeaderlessPayPalRequests :
       LET v == PayPalVerifyWebhook(w)
       IN ~v.ok /\ v.tokenRequests = 0 /\ v.verifyRequests = 0
  /\ (last.pc = "done" /\ last.provider = "paypal" /\ last.sig = "missing")
       => /\ last.status = WebhookErrorStatus
          /\ last.message = "Missing PayPal webhook headers"
          /\ last.processorRequests = 0
          /\ ~last.verified /\ ~last.marked
          /\ last.evReads = 0 /\ last.evWrites = 0 /\ last.forwards = 0

C34_HeaderlessPayPalTurnedAway ==
  /\ last.pc = "done"
  /\ last.provider = "paypal"
  /\ last.sig = "missing"
  /\ last.status = WebhookErrorStatus
  /\ last.processorRequests = 0
  /\ \E w \in HeaderlessPayPalRequests :
       /\ w.headers["paypal-transmission-sig"] # None
       /\ w.remote = RemoteOk

\* C37: a checkout request whose amount is absent or is 0 is answered with
\* HTTP 400 'Missing required fields'; no adapter is resolved, nothing is
\* sent to a processor and the session store is left as it was.
C37_NoImplicitZeroAmount ==
  [][(/\ api'.op = "checkout"
      /\ api'.input[1].amount \in {Undefined, <<0>>})
     => /\ api'.status = BadRequestStatus
        /\ api'.error = "Missing required fields"
        /\ NothingDone(api')
        /\ UNCHANGED SESSIONS]_vars

C37_ZeroAmountRejected ==
  /\ api.op = "checkout"
  /\ api.input[1].amount = <<0>>
  /\ api.input[1].provider = <<"paddle">>
  /\ api.status = BadRequestStatus
  /\ api.processorCalls = <<>>
  /\ api.sessionWrites = 0

\* the one identifier a subscription body supplies
SuppliedPlan(body) == IF Falsy(body.planId, "") THEN body.priceId ELSE body.planId

\* C38: a subscription request that supplies exactly one of planId and
\* priceId and reaches an implemented processor names that identifier to the
\* processor as the plan or price of the subscription, and the record stored
\* on success carries it as planId, whichever of the two names was used.
C38_SuppliedPlanReachesProcessor ==
  [][(/\ api'.op = "subscribe"
      /\ api'.processorCalls # <<>>
      /\ Falsy(api'.input[1].planId, "") # Falsy(api'.input[1].priceId, ""))
     => /\ api'.processorCalls[Len(api'.processorCalls)].arg = SuppliedPlan(api'.input[1])
        /\ api'.stored # Undefined
             => SESSIONS'[SessionKey(api'.stored[1])].value.planId
                  = SuppliedPlan(api'.input[1])]_vars

(***************************************************************************)
(* Properties of the helpers of utils/webhook.js.                          *)
(***************************************************************************)
\* an input of the verifier is malformed: no signature, or no secret
MalformedHmacInput(call) == call.signature = <<>> \/ call.secret = ""

\* the text left of a signature once a tag and its '=' are taken off
Remainder(signature) == signature[Len(signature)]

\* C35: verifyHmacSignature answers a well-formed call with a boolean, true
\* exactly when the hex digest of the payload under the secret equals the
\* signature it received and false for any other well-formed signature,
\* without raising; and it raises an error when the signature or the secret
\* is missing.
C35_VerifierRaisesOnlyOnMalformedInput ==
  util.fn = "verifyHmacSignature"
    => /\ ~MalformedHmacInput(util)
            => /\ ~util.threw
               /\ util.value = (Remainder(util.signature) = Hmac(util.secret, util.payload))
       /\ MalformedHmacInput(util) => util.threw

\* C36: for every payload, secret and signature text s without '=', the
\* verifier answers 'tag=' + s as it answers s alone, by comparing the
\* digest with the whole of s.
C36_PrefixTagStripped ==
  /\ \A payload \in Payloads, secret \in Secrets, s \in HexTexts, tag \in Tags :
       verifyHmacSignatureCall(payload, <<tag, s>>, secret)
         = verifyHmacSignatureCall(payload, <<s>>, secret)
  /\ (util.fn = "verifyHmacSignature" /\ Len(util.signature) = 2 /\ util.secret # "")
       => util.value = (util.signature[2] = Hmac(util.secret, util.payload))

C36_TaggedSignatureAccepted ==
  /\ util.fn = "verifyHmacSignature"
  /\ Len(util.signature) = 2
  /\ util.signature[1] = "sha256"
  /\ util.value

\* C39: isTimestampValid(timestamp, tolerance) is true exactly when the
\* timestamp lies between the current time minus the tolerance and the
\* current time plus the tolerance, both ends included.
C39_TimestampWindowInclusiveSymmetric ==
  util.fn = "isTimestampValid"
    => util.value = (/\ now - util.toleranceSeconds <= util.timestamp
                     /\ util.timestamp <= now + util.toleranceSeconds)

C39_FutureTimestampAtTheBound ==
  /\ util.fn = "isTimestampValid"
  /\ util.toleranceSeconds = 300
  /\ util.timestamp = now + 300
  /\ now > 0
  /\ util.value

====
